---- MODULE Spec2Model ----
(***************************************************************************)
(* Model of the validation framework of                                    *)
(* src/api_testing/Validation_Testing/validation_testing.py.               *)
(*                                                                         *)
(* Python values are tagged records (field t is type(value).__name__).     *)
(* A Python str is the sequence of its characters; an optional value is    *)
(* <<>> for None and <<x>> otherwise; a dict is the sequence of its        *)
(* <<key, value>> pairs in insertion order.  Every validate method is an   *)
(* operator that returns an outcome record                                 *)
(*   [result |-> the ValidationResult, raised |-> the exception type or    *)
(*    "none", calls |-> the labels of the child validators it called].     *)
(***************************************************************************)
EXTENDS Integers, Sequences, FiniteSets, TLC

VARIABLES pc, validator, value, result, raised, calls, adds,
          again, instance, exception,
          db, order_call, fetched, ncalls,
          request, response

\* The variables of the validation framework, and those of the order
\* service of src/api_testing/Integration_Testing/integration_testing.py.
validationVars == <<pc, validator, value, result, raised, calls, adds,
                    again, instance, exception>>
orderVars == <<db, order_call, fetched, ncalls>>

\* The variables of the calculator of
\* src/api_testing/Functional_Testing/functional_demo.py.
calculatorVars == <<request, response>>

vars == <<validationVars, orderVars, calculatorVars>>

(***************************************************************************)
(* Bounds of the model.                                                    *)
(***************************************************************************)
MaxStrLen == 2
MaxInt == 2
MaxListLen == 3
MaxDictLen == 2
MaxUnion == 2
MaxAdds == 1
MaxEmailLen == 7
MaxPasswordLen == 3

(***************************************************************************)
(* Optional values.                                                        *)
(***************************************************************************)
None == <<>>
Some(x) == <<x>>
IsNone(o) == o = <<>>
Get(o) == o[1]

(***************************************************************************)
(* Python values.                                                          *)
(***************************************************************************)
NoneV == [t |-> "NoneType"]
BoolV(b) == [t |-> "bool", b |-> b]
IntV(n) == [t |-> "int", n |-> n]
\* A float is kept as twice its value, so that 2.5 is h = 5 and 3.0 is h = 6.
FloatV(h) == [t |-> "float", h |-> h]
StrV(s) == [t |-> "str", s |-> s]
\* A date is its day ordinal; a datetime is a date with a time of day.
DateV(d) == [t |-> "date", d |-> d]
DateTimeV(d) == [t |-> "datetime", d |-> d]
ListV(items) == [t |-> "list", items |-> items]
DictV(pairs) == [t |-> "dict", pairs |-> pairs]

\* type(value).__name__
TypeName(v) == v.t

\* isinstance(value, cls): bool is a subclass of int, datetime of date.
IsInstance(v, cls) ==
    \/ v.t = cls
    \/ cls = "int" /\ v.t = "bool"
    \/ cls = "date" /\ v.t = "datetime"

\* Twice the numeric value of an int, float or bool.
Num2(v) ==
    CASE v.t = "int" -> 2 * v.n
      [] v.t = "float" -> v.h
      [] v.t = "bool" -> IF v.b THEN 2 ELSE 0

\* The Python str made of the characters of s, as one TLA+ string.
RECURSIVE Text(_)
Text(s) == IF s = <<>> THEN "" ELSE Head(s) \o Text(Tail(s))

\* str(n) for an integer n.
IntText(n) == IF n < 0 THEN "-" \o ToString(-n) ELSE ToString(n)

\* ', '.join(names)
RECURSIVE JoinComma(_)
JoinComma(names) ==
    IF names = <<>> THEN ""
    ELSE IF Len(names) = 1 THEN Head(names)
    ELSE Head(names) \o ", " \o JoinComma(Tail(names))

\* str(date) and str(datetime) for a day of January 1900.
DateText(d) == "1900-01-" \o (IF d < 10 THEN "0" ELSE "") \o IntText(d)

\* repr(s) for a str: quoted, a newline escaped.
RECURSIVE Escaped(_)
Escaped(s) ==
    IF s = <<>> THEN ""
    ELSE (IF Head(s) = "\n" THEN "\\n" ELSE Head(s)) \o Escaped(Tail(s))

\* repr(value), which str() of a list or a dict applies to what it holds.
RECURSIVE Repr(_)
Repr(v) ==
    CASE v.t = "str" -> "'" \o Escaped(v.s) \o "'"
      [] v.t = "int" -> IntText(v.n)
      [] v.t = "bool" -> IF v.b THEN "True" ELSE "False"
      [] v.t = "NoneType" -> "None"
      [] v.t = "float" ->
            (IF v.h < 0 THEN "-" ELSE "")
            \o ToString((IF v.h < 0 THEN -v.h ELSE v.h) \div 2)
            \o (IF v.h % 2 = 0 THEN ".0" ELSE ".5")
      [] v.t = "date" -> "datetime.date(1900, 1, " \o IntText(v.d) \o ")"
      [] v.t = "datetime" ->
            "datetime.datetime(1900, 1, " \o IntText(v.d) \o ", 0, 0)"
      [] v.t = "list" ->
            "[" \o JoinComma([i \in 1..Len(v.items) |-> Repr(v.items[i])]) \o "]"
      [] v.t = "dict" ->
            "{" \o JoinComma([i \in 1..Len(v.pairs) |->
                     Repr(v.pairs[i][1]) \o ": " \o Repr(v.pairs[i][2])]) \o "}"

\* str(value)
Render(v) ==
    CASE v.t = "str" -> Text(v.s)
      [] v.t = "date" -> DateText(v.d)
      [] v.t = "datetime" -> DateText(v.d) \o " 00:00:00"
      [] OTHER -> Repr(v)

(***************************************************************************)
(* ValidationError and ValidationResult.                                   *)
(***************************************************************************)
\* ValidationError(message): field None, details {}.
ValidationError(message) ==
    [message |-> message, field |-> None, details |-> <<>>]

\* ValidationError(message, details={"errors": messages})
ValidationErrorWithDetails(message, messages) ==
    [message |-> message, field |-> None,
     details |-> << <<"errors", messages>> >>]

\* ValidationResult(is_valid) with errors defaulted to [].
ValidationResult(is_valid) == [is_valid |-> is_valid, errors |-> <<>>]

\* A variant that leaves is_valid as it was.
add_error_keeps_valid(r, error) ==
    [is_valid |-> r.is_valid, errors |-> Append(r.errors, error)]

add_error(r, error) ==
    [is_valid |-> FALSE, errors |-> Append(r.errors, error)]

\* What a validate call hands back: a result, or an exception.
Returned(r, c) == [result |-> r, raised |-> "none", calls |-> c]
Raised(exc, c) ==
    [result |-> ValidationResult(TRUE), raised |-> exc, calls |-> c]

(***************************************************************************)
(* Regular expressions.  A compiled pattern is the record of its text;     *)
(* Match is pattern.match(value), written out for each pattern in use.     *)
(***************************************************************************)
Lower == {"a", "b", "c", "d", "e", "f", "g", "h", "i", "j", "k", "l", "m",
          "n", "o", "p", "q", "r", "s", "t", "u", "v", "w", "x", "y", "z"}
Upper == {"A", "B", "C", "D", "E", "F", "G", "H", "I", "J", "K", "L", "M",
          "N", "O", "P", "Q", "R", "S", "T", "U", "V", "W", "X", "Y", "Z"}
Digits == {"0", "1", "2", "3", "4", "5", "6", "7", "8", "9"}

UsernamePattern == [pattern |-> "^[a-zA-Z0-9_-]+$"]

\* "$" also matches just before a newline that ends the string.
MatchUsername(s) ==
    LET n == IF s # <<>> /\ s[Len(s)] = "\n" THEN Len(s) - 1 ELSE Len(s)
    IN  /\ n >= 1
        /\ \A i \in 1..n : s[i] \in Lower \cup Upper \cup Digits \cup {"_", "-"}

\* EmailValidator.EMAIL_PATTERN
EmailPattern ==
    [pattern |-> "^[a-zA-Z0-9._%+-]+@[a-zA-Z0-9.-]+\\.[a-zA-Z]{2,}$"]

\* A local part, "@", a domain, "." and at least two letters, up to the end
\* of the string or to the newline that ends it.
MatchEmail(s) ==
    \E n \in {Len(s)} \cup
              (IF s # <<>> /\ s[Len(s)] = "\n" THEN {Len(s) - 1} ELSE {}) :
        \E at \in 2..n : \E dot \in (at + 2)..(n - 2) :
            /\ \A i \in 1..(at - 1) :
                   s[i] \in Lower \cup Upper \cup Digits
                            \cup {".", "_", "%", "+", "-"}
            /\ s[at] = "@"
            /\ \A i \in (at + 1)..(dot - 1) :
                   s[i] \in Lower \cup Upper \cup Digits \cup {".", "-"}
            /\ s[dot] = "."
            /\ \A i \in (dot + 1)..n : s[i] \in Lower \cup Upper

Match(p, s) ==
    CASE p = UsernamePattern -> MatchUsername(s)
      [] p = EmailPattern -> MatchEmail(s)

\* The value of the digits ds read as a decimal number.
RECURSIVE DecimalValue(_)
DecimalValue(ds) ==
    IF ds = <<>> THEN 0
    ELSE 10 * DecimalValue(SubSeq(ds, 1, Len(ds) - 1))
         + (CHOOSE k \in 0..9 : ToString(k) = ds[Len(ds)])

\* datetime.datetime.strptime(s, "%d").date(): one or two digits naming a
\* day of January 1900; None stands for the ValueError.
DayFormat == "%d"
Strptime(s, format_str) ==
    IF /\ format_str = DayFormat
       /\ Len(s) \in 1..2
       /\ \A i \in 1..Len(s) : s[i] \in Digits
       /\ DecimalValue(s) \in 1..31
    THEN Some(DateV(DecimalValue(s)))
    ELSE None

(***************************************************************************)
(* Constructors: the fields each __init__ sets.                            *)
(***************************************************************************)
StringValidator(min_length, max_length, pattern, allowed_values) ==
    [cls |-> "StringValidator", min_length |-> min_length,
     max_length |-> max_length, pattern |-> pattern,
     allowed_values |-> allowed_values]

NumberValidator(min_value, max_value, integer_only, allow_negative, allow_zero) ==
    [cls |-> "NumberValidator", min_value |-> min_value, max_value |-> max_value,
     integer_only |-> integer_only, allow_negative |-> allow_negative,
     allow_zero |-> allow_zero]

BooleanValidator == [cls |-> "BooleanValidator"]

DateValidator(min_date, max_date, format_str) ==
    [cls |-> "DateValidator", min_date |-> min_date, max_date |-> max_date,
     format_str |-> format_str]

ListValidator(item_validator, min_length, max_length, unique_items) ==
    [cls |-> "ListValidator", item_validator |-> item_validator,
     min_length |-> min_length, max_length |-> max_length,
     unique_items |-> unique_items]

DictValidator(schema, required_fields, allow_unknown) ==
    [cls |-> "DictValidator", schema |-> schema,
     required_fields |-> required_fields, allow_unknown |-> allow_unknown]

UnionValidator(validators) == [cls |-> "UnionValidator", validators |-> validators]

OptionalValidator(inner) == [cls |-> "OptionalValidator", validator |-> inner]

(***************************************************************************)
(* Primitive validators.                                                   *)
(***************************************************************************)
RECURSIVE validate(_, _)

\* A variant that stops at the first violated constraint (an elif chain).
StringValidator_checks_first_only(self, v) ==
    IF Len(v.s) < self.min_length
    THEN add_error(ValidationResult(TRUE), ValidationError(
             "String length must be at least "
             \o IntText(self.min_length) \o " characters"))
    ELSE IF ~IsNone(self.max_length) /\ Len(v.s) > Get(self.max_length)
    THEN add_error(ValidationResult(TRUE), ValidationError(
             "String length must not exceed "
             \o IntText(Get(self.max_length)) \o " characters"))
    ELSE IF ~IsNone(self.pattern) /\ ~Match(Get(self.pattern), v.s)
    THEN add_error(ValidationResult(TRUE), ValidationError(
             "String does not match required pattern "
             \o Get(self.pattern).pattern))
    ELSE IF /\ ~IsNone(self.allowed_values)
            /\ Get(self.allowed_values) # <<>>
            /\ \A i \in 1..Len(Get(self.allowed_values)) :
                   Get(self.allowed_values)[i] # v.s
    THEN add_error(ValidationResult(TRUE), ValidationError(
             "Value must be one of: "
             \o JoinComma([i \in 1..Len(Get(self.allowed_values))
                           |-> Text(Get(self.allowed_values)[i])])))
    ELSE ValidationResult(TRUE)

\* lines 93-112: the constraint checks of a str value.
StringValidator_checks(self, v) ==
    LET r0 == ValidationResult(TRUE)
        r1 == IF Len(v.s) < self.min_length
              THEN add_error(r0, ValidationError(
                       "String length must be at least "
                       \o IntText(self.min_length) \o " characters"))
              ELSE r0
        r2 == IF ~IsNone(self.max_length) /\ Len(v.s) > Get(self.max_length)
              THEN add_error(r1, ValidationError(
                       "String length must not exceed "
                       \o IntText(Get(self.max_length)) \o " characters"))
              ELSE r1
        r3 == IF ~IsNone(self.pattern) /\ ~Match(Get(self.pattern), v.s)
              THEN add_error(r2, ValidationError(
                       "String does not match required pattern "
                       \o Get(self.pattern).pattern))
              ELSE r2
        \* "if self.allowed_values": neither None nor the empty list.
        r4 == IF /\ ~IsNone(self.allowed_values)
                 /\ Get(self.allowed_values) # <<>>
                 /\ \A i \in 1..Len(Get(self.allowed_values)) :
                        Get(self.allowed_values)[i] # v.s
              THEN add_error(r3, ValidationError(
                       "Value must be one of: "
                       \o JoinComma([i \in 1..Len(Get(self.allowed_values))
                                     |-> Text(Get(self.allowed_values)[i])])))
              ELSE r3
    IN  r4

StringValidator_validate(self, v) ==
    IF ~IsInstance(v, "str")
    THEN Returned(add_error(ValidationResult(TRUE), ValidationError(
             "Expected string but got " \o TypeName(v))), <<>>)
    ELSE Returned(StringValidator_checks(self, v), <<>>)

\* A variant whose range bounds are exclusive (<= and >= for < and >).
NumberValidator_checks_exclusive(self, v) ==
    LET r0 == ValidationResult(TRUE)
        r1 == IF ~IsNone(self.min_value) /\ Num2(v) <= 2 * Get(self.min_value)
              THEN add_error(r0, ValidationError(
                       "Value must be at least " \o IntText(Get(self.min_value))))
              ELSE r0
        r2 == IF ~IsNone(self.max_value) /\ Num2(v) >= 2 * Get(self.max_value)
              THEN add_error(r1, ValidationError(
                       "Value must not exceed " \o IntText(Get(self.max_value))))
              ELSE r1
        r3 == IF ~self.allow_negative /\ Num2(v) < 0
              THEN add_error(r2, ValidationError("Negative values are not allowed"))
              ELSE r2
        r4 == IF ~self.allow_zero /\ Num2(v) = 0
              THEN add_error(r3, ValidationError("Zero value is not allowed"))
              ELSE r3
    IN  r4

\* lines 143-159: the constraint checks of a numeric value.
NumberValidator_checks(self, v) ==
    LET r0 == ValidationResult(TRUE)
        r1 == IF ~IsNone(self.min_value) /\ Num2(v) < 2 * Get(self.min_value)
              THEN add_error(r0, ValidationError(
                       "Value must be at least " \o IntText(Get(self.min_value))))
              ELSE r0
        r2 == IF ~IsNone(self.max_value) /\ Num2(v) > 2 * Get(self.max_value)
              THEN add_error(r1, ValidationError(
                       "Value must not exceed " \o IntText(Get(self.max_value))))
              ELSE r1
        r3 == IF ~self.allow_negative /\ Num2(v) < 0
              THEN add_error(r2, ValidationError("Negative values are not allowed"))
              ELSE r2
        r4 == IF ~self.allow_zero /\ Num2(v) = 0
              THEN add_error(r3, ValidationError("Zero value is not allowed"))
              ELSE r3
    IN  r4

\* A variant that lacks the return after the integer type error, so that
\* the checks that follow still run on a float.
NumberValidator_validate_no_return(self, v) ==
    LET r0 == IF self.integer_only /\ ~IsInstance(v, "int")
              THEN add_error(ValidationResult(TRUE), ValidationError(
                       "Expected integer but got " \o TypeName(v)))
              ELSE ValidationResult(TRUE)
    IN  IF ~(IsInstance(v, "int") \/ IsInstance(v, "float"))
        THEN Returned(add_error(r0, ValidationError(
                 "Expected number but got " \o TypeName(v))), <<>>)
        ELSE Returned([is_valid |-> r0.is_valid
                                    /\ NumberValidator_checks(self, v).is_valid,
                       errors |-> r0.errors
                                  \o NumberValidator_checks(self, v).errors], <<>>)

NumberValidator_validate(self, v) ==
    IF self.integer_only /\ ~IsInstance(v, "int")
    THEN Returned(add_error(ValidationResult(TRUE), ValidationError(
             "Expected integer but got " \o TypeName(v))), <<>>)
    ELSE IF ~(IsInstance(v, "int") \/ IsInstance(v, "float"))
    THEN Returned(add_error(ValidationResult(TRUE), ValidationError(
             "Expected number but got " \o TypeName(v))), <<>>)
    ELSE Returned(NumberValidator_checks(self, v), <<>>)

BooleanValidator_validate(self, v) ==
    IF ~IsInstance(v, "bool")
    THEN Returned(add_error(ValidationResult(TRUE), ValidationError(
             "Expected boolean but got " \o TypeName(v))), <<>>)
    ELSE Returned(ValidationResult(TRUE), <<>>)

\* lines 197-212, on the value left by the parsing step.  Ordering a
\* datetime against a date raises TypeError.
DateValidator_checks(self, v) ==
    IF ~IsInstance(v, "date")
    THEN Returned(add_error(ValidationResult(TRUE), ValidationError(
             "Expected date but got " \o TypeName(v))), <<>>)
    ELSE IF v.t = "datetime" /\ ~IsNone(self.min_date)
    THEN Raised("TypeError", <<>>)
    ELSE LET r0 == ValidationResult(TRUE)
             r1 == IF ~IsNone(self.min_date) /\ v.d < Get(self.min_date).d
                   THEN add_error(r0, ValidationError(
                            "Date must be on or after "
                            \o DateText(Get(self.min_date).d)))
                   ELSE r0
         IN  IF v.t = "datetime" /\ ~IsNone(self.max_date)
             THEN Raised("TypeError", <<>>)
             ELSE IF ~IsNone(self.max_date) /\ v.d > Get(self.max_date).d
             THEN Returned(add_error(r1, ValidationError(
                      "Date must be on or before "
                      \o DateText(Get(self.max_date).d))), <<>>)
             ELSE Returned(r1, <<>>)

DateValidator_validate(self, v) ==
    IF IsInstance(v, "str") /\ ~IsNone(self.format_str)
    THEN IF IsNone(Strptime(v.s, Get(self.format_str)))
         THEN Returned(add_error(ValidationResult(TRUE), ValidationError(
                  "Date string does not match format "
                  \o Get(self.format_str))), <<>>)
         ELSE DateValidator_checks(self, Get(Strptime(v.s, Get(self.format_str))))
    ELSE DateValidator_checks(self, v)


(***************************************************************************)
(* Composite validators.                                                   *)
(***************************************************************************)
\* "if error.field": neither None nor the empty string.
FieldSet(error) == ~IsNone(error.field) /\ Get(error.field) # ""

\* error.field = prefix + (f".{error.field}" if error.field else ""), the
\* assignment shared by ListValidator and DictValidator.
WithPrefix(error, prefix) ==
    [error EXCEPT !.field =
        Some(prefix \o (IF FieldSet(error) THEN "." \o Get(error.field) ELSE ""))]

\* for error in child.errors: error.field = ...; result.add_error(error)
RECURSIVE AddPrefixed(_, _, _)
AddPrefixed(r, errors, prefix) ==
    IF errors = <<>> THEN r
    ELSE AddPrefixed(add_error(r, WithPrefix(Head(errors), prefix)),
                     Tail(errors), prefix)

\* A variant that counts the distinct items, not their renderings:
\* len(set(value)).
DistinctItems(items) == Cardinality({items[i] : i \in 1..Len(items)})

\* len(set(map(str, value)))
DistinctRenderings(items) ==
    Cardinality({Render(items[i]) : i \in 1..Len(items)})

\* A variant that checks uniqueness before the length bounds.
ListValidator_checks_unique_first(self, v) ==
    LET r0 == ValidationResult(TRUE)
        r1 == IF self.unique_items /\ Len(v.items) # DistinctRenderings(v.items)
              THEN add_error(r0, ValidationError("List items must be unique"))
              ELSE r0
        r2 == IF Len(v.items) < self.min_length
              THEN add_error(r1, ValidationError(
                       "List must contain at least "
                       \o IntText(self.min_length) \o " items"))
              ELSE r1
        r3 == IF ~IsNone(self.max_length) /\ Len(v.items) > Get(self.max_length)
              THEN add_error(r2, ValidationError(
                       "List must not contain more than "
                       \o IntText(Get(self.max_length)) \o " items"))
              ELSE r2
    IN  r3

\* lines 239-250: length bounds, then uniqueness.
ListValidator_checks(self, v) ==
    LET r0 == ValidationResult(TRUE)
        r1 == IF Len(v.items) < self.min_length
              THEN add_error(r0, ValidationError(
                       "List must contain at least "
                       \o IntText(self.min_length) \o " items"))
              ELSE r0
        r2 == IF ~IsNone(self.max_length) /\ Len(v.items) > Get(self.max_length)
              THEN add_error(r1, ValidationError(
                       "List must not contain more than "
                       \o IntText(Get(self.max_length)) \o " items"))
              ELSE r1
        r3 == IF self.unique_items /\ Len(v.items) # DistinctRenderings(v.items)
              THEN add_error(r2, ValidationError("List items must be unique"))
              ELSE r2
    IN  r3

\* lines 253-259: the loop over enumerate(value), from the item at
\* position k (index k - 1) on; an exception of the item validator ends it.
RECURSIVE ListValidator_items(_, _, _, _, _)
ListValidator_items(self, items, k, r, c) ==
    IF k > Len(items) THEN Returned(r, c)
    ELSE LET label == "[" \o IntText(k - 1) \o "]"
             item_result == validate(Get(self.item_validator), items[k])
         IN  IF item_result.raised # "none"
             THEN Raised(item_result.raised, Append(c, label))
             ELSE ListValidator_items(self, items, k + 1,
                      IF ~item_result.result.is_valid
                      THEN AddPrefixed(r, item_result.result.errors, label)
                      ELSE r,
                      Append(c, label))

ListValidator_validate(self, v) ==
    IF ~IsInstance(v, "list")
    THEN Returned(add_error(ValidationResult(TRUE), ValidationError(
             "Expected list but got " \o TypeName(v))), <<>>)
    ELSE IF IsNone(self.item_validator)
    THEN Returned(ListValidator_checks(self, v), <<>>)
    ELSE ListValidator_items(self, v.items, 1, ListValidator_checks(self, v), <<>>)

\* "field in value" and value[field] for a dict and a str field name.
HasKey(pairs, field) == \E i \in 1..Len(pairs) : pairs[i][1] = StrV(field)
Lookup(pairs, field) ==
    pairs[CHOOSE i \in 1..Len(pairs) : pairs[i][1] = StrV(field)][2]

\* "field in self.schema" for a key of the input.
InSchema(schema, key) == \E i \in 1..Len(schema) : StrV(schema[i][1]) = key

\* [field for field in self.required_fields if field not in value]
MissingFields(self, pairs) ==
    SelectSeq(self.required_fields, LAMBDA f : ~HasKey(pairs, f))

\* [field for field in value if field not in self.schema]
UnknownFields(self, pairs) ==
    SelectSeq([i \in 1..Len(pairs) |-> pairs[i][1]],
              LAMBDA k : ~InSchema(self.schema, k))

\* lines 283-287
DictValidator_required(self, pairs) ==
    IF MissingFields(self, pairs) # <<>>
    THEN add_error(ValidationResult(TRUE), ValidationError(
             "Missing required fields: "
             \o JoinComma([i \in 1..Len(MissingFields(self, pairs))
                           |-> Text(MissingFields(self, pairs)[i])])))
    ELSE ValidationResult(TRUE)

\* lines 296-303: the loop over self.schema.items(), from entry k on.
RECURSIVE DictValidator_fields(_, _, _, _, _)
DictValidator_fields(self, pairs, k, r, c) ==
    IF k > Len(self.schema) THEN Returned(r, c)
    ELSE LET field == self.schema[k][1]
         IN  IF ~HasKey(pairs, field)
             THEN DictValidator_fields(self, pairs, k + 1, r, c)
             ELSE LET field_result ==
                          validate(self.schema[k][2], Lookup(pairs, field))
                  IN  IF field_result.raised # "none"
                      THEN Raised(field_result.raised, Append(c, Text(field)))
                      ELSE DictValidator_fields(self, pairs, k + 1,
                               IF ~field_result.result.is_valid
                               THEN AddPrefixed(r, field_result.result.errors,
                                                Text(field))
                               ELSE r,
                               Append(c, Text(field)))

\* lines 289-294, then the field loop.  ', '.join(unknown_fields) raises
\* TypeError when an unknown key is not a str.
DictValidator_validate(self, v) ==
    IF ~IsInstance(v, "dict")
    THEN Returned(add_error(ValidationResult(TRUE), ValidationError(
             "Expected dictionary but got " \o TypeName(v))), <<>>)
    ELSE LET r1 == DictValidator_required(self, v.pairs)
             unknown_fields == UnknownFields(self, v.pairs)
         IN  IF self.allow_unknown \/ unknown_fields = <<>>
             THEN DictValidator_fields(self, v.pairs, 1, r1, <<>>)
             ELSE IF \E i \in 1..Len(unknown_fields) : unknown_fields[i].t # "str"
             THEN Raised("TypeError", <<>>)
             ELSE DictValidator_fields(self, v.pairs, 1,
                      add_error(r1, ValidationError(
                          "Unknown fields: "
                          \o JoinComma([i \in 1..Len(unknown_fields)
                                        |-> Text(unknown_fields[i].s)]))),
                      <<>>)

\* [e.message for e in all_errors]
Messages(errors) == [i \in 1..Len(errors) |-> errors[i].message]

\* A variant that goes on validating the candidates that follow the first
\* one to accept, and then returns that first success.
RECURSIVE UnionValidator_loop_consults_all(_, _, _, _, _)
UnionValidator_loop_consults_all(self, v, k, all_errors, c) ==
    IF k > Len(self.validators)
    THEN Returned(add_error(ValidationResult(FALSE),
             ValidationErrorWithDetails(
                 "Value did not match any of the expected types",
                 Messages(all_errors))), c)
    ELSE LET candidate == validate(self.validators[k], v)
             label == IntText(k - 1)
             later == UnionValidator_loop_consults_all(self, v, k + 1,
                          all_errors, Append(c, label))
         IN  IF candidate.raised # "none"
             THEN Raised(candidate.raised, Append(c, label))
             ELSE IF candidate.result.is_valid
             THEN IF later.raised # "none" THEN later
                  ELSE Returned(candidate.result, later.calls)
             ELSE UnionValidator_loop_consults_all(self, v, k + 1,
                      all_errors \o candidate.result.errors, Append(c, label))

\* lines 319-329: the loop over self.validators from candidate k on
\* (list index k - 1), then the aggregate error.
RECURSIVE UnionValidator_loop(_, _, _, _, _)
UnionValidator_loop(self, v, k, all_errors, c) ==
    IF k > Len(self.validators)
    THEN Returned(add_error(ValidationResult(FALSE),
             ValidationErrorWithDetails(
                 "Value did not match any of the expected types",
                 Messages(all_errors))), c)
    ELSE LET candidate == validate(self.validators[k], v)
             label == IntText(k - 1)
         IN  IF candidate.raised # "none"
             THEN Raised(candidate.raised, Append(c, label))
             ELSE IF candidate.result.is_valid
             THEN Returned(candidate.result, Append(c, label))
             ELSE UnionValidator_loop(self, v, k + 1,
                      all_errors \o candidate.result.errors, Append(c, label))

UnionValidator_validate(self, v) ==
    IF self.validators = <<>>
    THEN Returned(ValidationResult(TRUE), <<>>)
    ELSE UnionValidator_loop(self, v, 1, <<>>, <<>>)

OptionalValidator_validate(self, v) ==
    IF v = NoneV
    THEN Returned(ValidationResult(TRUE), <<>>)
    ELSE LET inner == validate(self.validator, v)
         IN  [inner EXCEPT !.calls = <<"validator">>]

(***************************************************************************)
(* Common validation patterns: subclasses of StringValidator.              *)
(***************************************************************************)
\* EmailValidator(allow_empty): super().__init__(min_length, pattern).
EmailValidator(allow_empty) ==
    [cls |-> "EmailValidator", min_length |-> IF allow_empty THEN 0 ELSE 1,
     max_length |-> None, pattern |-> Some(EmailPattern),
     allowed_values |-> None]

\* '..' in value
HasConsecutiveDots(s) ==
    \E i \in 1..(Len(s) - 1) : s[i] = "." /\ s[i + 1] = "."

\* parts = value.split('@'); len(parts) == 2 and '.' not in parts[1]
DomainLacksDot(s) ==
    /\ Cardinality({i \in 1..Len(s) : s[i] = "@"}) = 1
    /\ LET at == CHOOSE i \in 1..Len(s) : s[i] = "@"
       IN  \A i \in (at + 1)..Len(s) : s[i] # "."

\* A variant that makes the email-specific checks whatever super().validate
\* found.
EmailValidator_validate_unguarded(self, v) ==
    LET result0 == StringValidator_validate(self, v).result
        r1 == IF v.t = "str" /\ HasConsecutiveDots(v.s)
              THEN add_error(result0, ValidationError(
                       "Email cannot contain consecutive dots"))
              ELSE result0
    IN  Returned(r1, <<>>)

\* lines 359-373; "result.is_valid and value": a valid result means a str,
\* which is truthy when it is not empty.
EmailValidator_validate(self, v) ==
    LET result0 == StringValidator_validate(self, v).result
    IN  IF result0.is_valid /\ v.s # <<>>
        THEN LET r1 == IF HasConsecutiveDots(v.s)
                       THEN add_error(result0, ValidationError(
                                "Email cannot contain consecutive dots"))
                       ELSE result0
                 r2 == IF DomainLacksDot(v.s)
                       THEN add_error(r1, ValidationError(
                                "Email domain must contain at least one dot"))
                       ELSE r1
             IN  Returned(r2, <<>>)
        ELSE Returned(result0, <<>>)

\* PasswordValidator(min_length, require_uppercase, require_lowercase,
\* require_digit, require_special)
PasswordValidator(min_length, require_uppercase, require_lowercase, require_digit, require_special) ==
    [cls |-> "PasswordValidator", min_length |-> min_length,
     max_length |-> None, pattern |-> None, allowed_values |-> None,
     require_uppercase |-> require_uppercase,
     require_lowercase |-> require_lowercase,
     require_digit |-> require_digit, require_special |-> require_special]

\* c.isupper(), c.islower(), c.isdigit() and c.isalnum() for an ASCII c.
IsUpper(c) == c \in Upper
IsLower(c) == c \in Lower
IsDigit(c) == c \in Digits
IsAlnum(c) == c \in Upper \cup Lower \cup Digits

\* any(test(c) for c in value)
HasChar(s, kind) ==
    \E i \in 1..Len(s) :
        CASE kind = "upper" -> IsUpper(s[i])
          [] kind = "lower" -> IsLower(s[i])
          [] kind = "digit" -> IsDigit(s[i])
          [] kind = "special" -> ~IsAlnum(s[i])

\* lines 388-411
PasswordValidator_validate(self, v) ==
    LET result0 == StringValidator_validate(self, v).result
    IN  IF ~IsInstance(v, "str") THEN Returned(result0, <<>>)
        ELSE LET r1 == IF self.require_uppercase /\ ~HasChar(v.s, "upper")
                       THEN add_error(result0, ValidationError(
                                "Password must contain at least one uppercase letter"))
                       ELSE result0
                 r2 == IF self.require_lowercase /\ ~HasChar(v.s, "lower")
                       THEN add_error(r1, ValidationError(
                                "Password must contain at least one lowercase letter"))
                       ELSE r1
                 r3 == IF self.require_digit /\ ~HasChar(v.s, "digit")
                       THEN add_error(r2, ValidationError(
                                "Password must contain at least one digit"))
                       ELSE r2
                 r4 == IF self.require_special
                          /\ ~HasChar(v.s, "special")
                       THEN add_error(r3, ValidationError(
                                "Password must contain at least one special character"))
                       ELSE r3
             IN  Returned(r4, <<>>)

(***************************************************************************)
(* JSONSchemaValidator.  A schema section is a record holding exactly the  *)
(* keys the Python dict holds; "properties" is the sequence of its         *)
(* <<name, section>> pairs.  Constructing a validator gives                *)
(* [raised |-> "none", validator |-> the validator] or the exception.      *)
(***************************************************************************)
\* d.get(key, default) and d.get(key)
GetOr(d, key, default) == IF key \in DOMAIN d THEN d[key] ELSE default
GetOpt(d, key) == IF key \in DOMAIN d THEN Some(d[key]) ELSE None

Built(v) == [raised |-> "none", validator |-> v]
Failed(exc) == [raised |-> exc, validator |-> None]

\* Validator(): the class is abstract (validate is an abstractmethod), so
\* instantiating it raises TypeError.
Validator == Failed("TypeError")

RECURSIVE JSONSchemaValidator(_)
RECURSIVE create_validator_for_schema(_)

\* The validator of one schema section, as both _build_validator_from_schema
\* (lines 596-630) and _create_validator_for_schema (lines 642-676) pick it.
create_validator_for_schema(schema) ==
    LET field_type == GetOpt(schema, "type")
    IN  IF field_type = Some("string")
        THEN Built(StringValidator(GetOr(schema, "minLength", 0),
                                   GetOpt(schema, "maxLength"),
                                   GetOpt(schema, "pattern"),
                                   GetOpt(schema, "enum")))
        ELSE IF field_type = Some("number") \/ field_type = Some("integer")
        THEN Built(NumberValidator(GetOpt(schema, "minimum"),
                                   GetOpt(schema, "maximum"),
                                   field_type = Some("integer"), TRUE, TRUE))
        ELSE IF field_type = Some("boolean")
        THEN Built(BooleanValidator)
        ELSE IF field_type = Some("array")
        THEN LET item_validator ==
                     create_validator_for_schema(GetOr(schema, "items", <<>>))
             IN  IF item_validator.raised # "none" THEN item_validator
                 ELSE Built(ListValidator(Some(item_validator.validator),
                                          GetOr(schema, "minItems", 0),
                                          GetOpt(schema, "maxItems"),
                                          GetOr(schema, "uniqueItems", FALSE)))
        ELSE IF field_type = Some("object")
        THEN JSONSchemaValidator(
                 [properties |-> GetOr(schema, "properties", <<>>),
                  required |-> GetOr(schema, "required", <<>>)])
        ELSE Validator

\* lines 590-632: the loop over the properties from entry k on, collecting
\* schema_validators and required_fields.
RECURSIVE build_fields(_, _, _, _)
build_fields(schema, k, schema_validators, required_fields) ==
    LET properties == GetOr(schema, "properties", <<>>)
        required == GetOr(schema, "required", <<>>)
    IN  IF k > Len(properties)
        THEN Built(DictValidator(schema_validators, required_fields,
                 ~GetOr(schema, "additionalProperties", TRUE)))
        ELSE LET field_name == properties[k][1]
                 made == create_validator_for_schema(properties[k][2])
             IN  IF made.raised # "none" THEN made
                 ELSE build_fields(schema, k + 1,
                          Append(schema_validators, <<field_name, made.validator>>),
                          IF \E i \in 1..Len(required) : required[i] = field_name
                          THEN Append(required_fields, field_name)
                          ELSE required_fields)

\* JSONSchemaValidator(schema): __init__ and _build_validator_from_schema.
JSONSchemaValidator(schema) ==
    LET built == build_fields(schema, 1, <<>>, <<>>)
    IN  IF built.raised # "none" THEN built
        ELSE Built([cls |-> "JSONSchemaValidator", schema |-> schema,
                    dict_validator |-> built.validator])

JSONSchemaValidator_validate(self, v) == validate(self.dict_validator, v)

\* validator.validate(value): the method of the validator's class.
validate(self, v) ==
    CASE self.cls = "StringValidator" -> StringValidator_validate(self, v)
      [] self.cls = "NumberValidator" -> NumberValidator_validate(self, v)
      [] self.cls = "BooleanValidator" -> BooleanValidator_validate(self, v)
      [] self.cls = "DateValidator" -> DateValidator_validate(self, v)
      [] self.cls = "ListValidator" -> ListValidator_validate(self, v)
      [] self.cls = "DictValidator" -> DictValidator_validate(self, v)
      [] self.cls = "UnionValidator" -> UnionValidator_validate(self, v)
      [] self.cls = "OptionalValidator" -> OptionalValidator_validate(self, v)
      [] self.cls = "JSONSchemaValidator" -> JSONSchemaValidator_validate(self, v)
      [] self.cls = "EmailValidator" -> EmailValidator_validate(self, v)
      [] self.cls = "PasswordValidator" -> PasswordValidator_validate(self, v)

(***************************************************************************)
(* ValidatedModel and User.  A model class is the record of its name and   *)
(* of its _<field>_validator attributes; an instance is its __dict__, the  *)
(* sequence of <<field name, value>> pairs in the order __init__ assigns.  *)
(***************************************************************************)
\* bool(value)
Truthy(v) ==
    CASE v.t = "NoneType" -> FALSE
      [] v.t = "bool" -> v.b
      [] v.t = "int" -> v.n # 0
      [] v.t = "float" -> v.h # 0
      [] v.t = "str" -> v.s # <<>>
      [] v.t = "list" -> v.items # <<>>
      [] v.t = "dict" -> v.pairs # <<>>
      [] OTHER -> TRUE

FieldId == <<"i", "d">>
FieldAge == <<"a", "g", "e">>
FieldEmail == <<"e", "m", "a", "i", "l">>
FieldUsername == <<"u", "s", "e", "r", "n", "a", "m", "e">>
FieldPassword == <<"p", "a", "s", "s", "w", "o", "r", "d">>
FieldStatus == <<"s", "t", "a", "t", "u", "s">>
FieldCreatedAt == <<"c", "r", "e", "a", "t", "e", "d", "_", "a", "t">>

\* [s.value for s in UserStatus]
UserStatus ==
    <<<<"a", "c", "t", "i", "v", "e">>, <<"p", "e", "n", "d", "i", "n", "g">>,
      <<"s", "u", "s", "p", "e", "n", "d", "e", "d">>,
      <<"i", "n", "a", "c", "t", "i", "v", "e">>>>

\* class User: its name and its field validators (lines 752-759).
User ==
    [cls |-> "User", name |-> "User",
     validators |->
        << <<FieldId, OptionalValidator(
                          NumberValidator(Some(1), None, TRUE, TRUE, TRUE))>>,
           <<FieldUsername,
             StringValidator(3, Some(50), Some(UsernamePattern), None)>>,
           <<FieldEmail, EmailValidator(FALSE)>>,
           <<FieldPassword, PasswordValidator(8, TRUE, TRUE, TRUE, TRUE)>>,
           <<FieldAge, OptionalValidator(
                           NumberValidator(Some(13), Some(120), TRUE, TRUE, TRUE))>>,
           <<FieldStatus, StringValidator(0, None, None, Some(UserStatus))>>,
           <<FieldCreatedAt, DateValidator(None, None, None)>> >>]

\* The parameters of User.__init__ with their defaults, in the order the
\* attributes are assigned.
UserDefaults ==
    << <<FieldId, NoneV>>, <<FieldUsername, StrV(<<>>)>>,
       <<FieldEmail, StrV(<<>>)>>, <<FieldPassword, StrV(<<>>)>>,
       <<FieldAge, NoneV>>, <<FieldStatus, StrV(<<"p", "e", "n", "d", "i", "n", "g">>)>>,
       <<FieldCreatedAt, NoneV>> >>

\* User(**data): TypeError for a keyword that is no parameter; created_at
\* is "created_at or datetime.datetime.now()".
User_init(data, now) ==
    IF \E i \in 1..Len(data.pairs) :
           \A k \in 1..Len(UserDefaults) :
               data.pairs[i][1] # StrV(UserDefaults[k][1])
    THEN [raised |-> "TypeError", instance |-> None]
    ELSE LET given(k) ==
                 IF HasKey(data.pairs, UserDefaults[k][1])
                 THEN Lookup(data.pairs, UserDefaults[k][1])
                 ELSE UserDefaults[k][2]
         IN  [raised |-> "none",
              instance |-> Some([k \in 1..Len(UserDefaults) |->
                  <<UserDefaults[k][1],
                    IF UserDefaults[k][1] = FieldCreatedAt /\ ~Truthy(given(k))
                    THEN now ELSE given(k)>>])]

\* getattr(self.__class__, f"_{field_name}_validator", None)
FieldValidator(cls, field_name) ==
    IF \E i \in 1..Len(cls.validators) : cls.validators[i][1] = field_name
    THEN Some(cls.validators[CHOOSE i \in 1..Len(cls.validators) :
                                 cls.validators[i][1] = field_name][2])
    ELSE None

\* lines 695-704: the loop over self.__dict__.items(), from entry k on.
RECURSIVE ValidatedModel_rest(_, _, _, _)

\* lines 699-704: what validate() does with the result of one field.
ValidatedModel_field(r, c, field_name, field_result) ==
    IF field_result.raised # "none"
    THEN Raised(field_result.raised, Append(c, Text(field_name)))
    ELSE Returned(IF ~field_result.result.is_valid
                  THEN AddPrefixed(r, field_result.result.errors,
                                   Text(field_name))
                  ELSE r,
                  Append(c, Text(field_name)))

\* lines 694-706: the loop over self.__dict__ from its k-th item on.
RECURSIVE ValidatedModel_fields(_, _, _, _, _)
ValidatedModel_fields(cls, self, k, r, c) ==
    IF k > Len(self) THEN Returned(r, c)
    ELSE IF IsNone(FieldValidator(cls, self[k][1]))
    THEN ValidatedModel_fields(cls, self, k + 1, r, c)
    ELSE ValidatedModel_rest(cls, self, k,
             ValidatedModel_field(r, c, self[k][1],
                 validate(Get(FieldValidator(cls, self[k][1])), self[k][2])))

\* The fields that follow the k-th one, unless its validator raised.
ValidatedModel_rest(cls, self, k, so_far) ==
    IF so_far.raised # "none" THEN so_far
    ELSE ValidatedModel_fields(cls, self, k + 1, so_far.result, so_far.calls)

\* ValidatedModel.validate(self)
ValidatedModel_validate(cls, self) ==
    ValidatedModel_fields(cls, self, 1, ValidationResult(TRUE), <<>>)

\* What from_dict hands back: the instance, or the exception it raised.
Handed(inst, outcome, exc_type, exc) ==
    [instance |-> inst, result |-> outcome.result, calls |-> outcome.calls,
     raised |-> exc_type, exception |-> exc]

\* lines 713-718: what from_dict does with the result of instance.validate().
from_dict_checked(cls, inst, outcome) ==
    IF outcome.raised # "none"
    THEN Handed(None, outcome, outcome.raised, None)
    ELSE IF ~outcome.result.is_valid
    THEN Handed(None, outcome, "ValidationError",
             Some(ValidationErrorWithDetails(
                      "Invalid " \o cls.name,
                      Messages(outcome.result.errors))))
    ELSE Handed(inst, outcome, "none", None)

\* A variant that returns the instance whatever validate() found.
from_dict_unchecked(cls, data, now) ==
    IF User_init(data, now).raised # "none"
    THEN Handed(None, Returned(ValidationResult(TRUE), <<>>),
                User_init(data, now).raised, None)
    ELSE Handed(User_init(data, now).instance,
                ValidatedModel_validate(cls, Get(User_init(data, now).instance)),
                ValidatedModel_validate(cls,
                    Get(User_init(data, now).instance)).raised,
                None)

\* ValidatedModel.from_dict(cls, data), lines 709-718
from_dict(cls, data, now) ==
    IF User_init(data, now).raised # "none"
    THEN Handed(None, Returned(ValidationResult(TRUE), <<>>),
                User_init(data, now).raised, None)
    ELSE from_dict_checked(cls, User_init(data, now).instance,
             ValidatedModel_validate(cls, Get(User_init(data, now).instance)))

(***************************************************************************)
(* validate_registration_form.                                             *)
(***************************************************************************)
FieldConfirmPassword == <<"c", "o", "n", "f", "i", "r", "m", "_", "p", "a", "s", "s", "w", "o", "r", "d">>
FieldTermsAccepted == <<"t", "e", "r", "m", "s", "_", "a", "c", "c", "e", "p", "t", "e", "d">>
FieldProfile == <<"p", "r", "o", "f", "i", "l", "e">>
FieldFirstName == <<"f", "i", "r", "s", "t", "_", "n", "a", "m", "e">>
FieldLastName == <<"l", "a", "s", "t", "_", "n", "a", "m", "e">>
FieldBio == <<"b", "i", "o">>

\* The schema of lines 768-804.
RegistrationSchema ==
    [properties |->
        << <<FieldUsername, [type |-> "string", minLength |-> 3, maxLength |-> 50,
                             pattern |-> UsernamePattern]>>,
           <<FieldEmail, [type |-> "string", format |-> "email"]>>,
           <<FieldPassword, [type |-> "string", minLength |-> 8]>>,
           <<FieldConfirmPassword, [type |-> "string"]>>,
           <<FieldAge, [type |-> "integer", minimum |-> 13]>>,
           <<FieldTermsAccepted, [type |-> "boolean"]>>,
           <<FieldProfile,
             [type |-> "object",
              properties |->
                 << <<FieldFirstName, [type |-> "string"]>>,
                    <<FieldLastName, [type |-> "string"]>>,
                    <<FieldBio, [type |-> "string", maxLength |-> 500]>> >>]>> >>,
     required |-> <<FieldUsername, FieldEmail, FieldPassword,
                    FieldConfirmPassword, FieldTermsAccepted>>]

\* form_data.get(key, default)
FormGet(form_data, key, default) ==
    IF HasKey(form_data.pairs, key) THEN Lookup(form_data.pairs, key) ELSE default

\* for error in password_result.errors: error.field = "password";
\* result.add_error(error)
RECURSIVE AddOnField(_, _, _)
AddOnField(r, errors, field) ==
    IF errors = <<>> THEN r
    ELSE AddOnField(add_error(r, [Head(errors) EXCEPT !.field = Some(field)]),
                    Tail(errors), field)

\* lines 811-829: the custom rules, on a result the schema found valid;
\* password_result is what PasswordValidator().validate made of the
\* password.
registration_rules(form_data, result0, password_result) ==
    LET r1 == IF FormGet(form_data, FieldPassword, NoneV)
                 # FormGet(form_data, FieldConfirmPassword, NoneV)
              THEN add_error(result0,
                       [ValidationError("Passwords do not match")
                           EXCEPT !.field = Some("confirm_password")])
              ELSE result0
        r2 == IF ~password_result.is_valid
              THEN AddOnField(r1, password_result.errors, "password")
              ELSE r1
        r3 == IF ~Truthy(FormGet(form_data, FieldTermsAccepted, BoolV(FALSE)))
              THEN add_error(r2,
                       [ValidationError("You must accept the terms and conditions")
                           EXCEPT !.field = Some("terms_accepted")])
              ELSE r2
    IN  r3

\* A variant that applies the custom rules whatever the schema found.
registration_checked_always(form_data, outcome) ==
    IF outcome.raised # "none" \/ form_data.t # "dict"
    THEN outcome
    ELSE [outcome EXCEPT
             !.result = registration_rules(form_data, outcome.result,
                 validate(PasswordValidator(8, TRUE, TRUE, TRUE, TRUE),
                     FormGet(form_data, FieldPassword, StrV(<<>>))).result)]

\* validate_registration_form(form_data), lines 766-831
registration_checked(form_data, outcome) ==
    IF outcome.raised # "none" \/ ~outcome.result.is_valid
    THEN outcome
    ELSE [outcome EXCEPT
             !.result = registration_rules(form_data, outcome.result,
                 validate(PasswordValidator(8, TRUE, TRUE, TRUE, TRUE),
                     FormGet(form_data, FieldPassword, StrV(<<>>))).result)]

registration_validated(form_data, made) ==
    IF made.raised # "none" THEN Raised(made.raised, <<>>)
    ELSE registration_checked(form_data, validate(made.validator, form_data))

validate_registration_form(form_data) ==
    registration_validated(form_data, JSONSchemaValidator(RegistrationSchema))

(***************************************************************************)
(* The inputs of the model: values and validator configurations.           *)
(***************************************************************************)
Alphabet == {"a", "1", "!", "\n"}

Strings == UNION {[1..n -> Alphabet] : n \in 0..MaxStrLen}

IntValues == {IntV(n) : n \in -1..MaxInt} \cup {IntV(25), IntV(120), IntV(150)}

\* -0.5, 0.0, 1.0, 1.5 and 3.0
FloatValues == {FloatV(h) : h \in {-1, 0, 2, 3, 6}}

DateValues == {DateV(d) : d \in 1..(MaxInt + 1)} \cup {DateTimeV(2)}

PrimValues ==
    {NoneV, BoolV(TRUE), BoolV(FALSE)} \cup IntValues \cup FloatValues
    \cup {StrV(s) : s \in Strings} \cup DateValues

StringValidators ==
    {StringValidator(mn, mx, p, av) :
        mn \in {0, 1, 2}, mx \in {None, Some(1)},
        p \in {None, Some(UsernamePattern)},
        av \in {None, Some(<<>>), Some(<< <<"a">>, <<"a", "1">> >>)}}

NumberValidators ==
    {NumberValidator(mn, mx, io, an, az) :
        mn \in {None, Some(0), Some(1)}, mx \in {None, Some(1), Some(120)},
        io \in BOOLEAN, an \in BOOLEAN, az \in BOOLEAN}

DateValidators ==
    {DateValidator(mn, mx, f) :
        mn \in {None, Some(DateV(2))}, mx \in {None, Some(DateV(2))},
        f \in {None, Some(DayFormat)}}

\* Field names and dict keys.
FieldA == <<"a">>
FieldB == <<"b">>
FieldName == <<"n", "a", "m", "e">>

\* StringValidator(min_length=1, max_length=20), the item validator of the
\* demonstration's tags_validator, and a validator of whole numbers.
TagValidator == StringValidator(1, Some(20), None, None)
AnyString == StringValidator(0, None, None, None)
WholeNumber == NumberValidator(Some(1), None, TRUE, TRUE, TRUE)

ItemValues == {StrV(<<"1">>), IntV(1), StrV(<<"a">>), StrV(<<>>)}

ListValues ==
    {ListV(items) : items \in UNION {[1..n -> ItemValues] : n \in 0..MaxListLen}}

NonListValues == {NoneV, StrV(<<"a">>), DictV(<<>>)}

ListValidators ==
    {ListValidator(iv, mn, mx, u) :
        iv \in {None, Some(TagValidator), Some(WholeNumber)},
        mn \in {0, 1}, mx \in {None, Some(2)}, u \in BOOLEAN}

\* {"b": 1} and [{"b": 1}]
DictB1 == DictV(<< <<StrV(FieldB), IntV(1)>> >>)
ListOfDictB1 == ListV(<<DictB1>>)

\* A list of dicts whose field b is a string.
ListOfDictsWithB ==
    ListValidator(Some(DictValidator(<< <<FieldB, AnyString>> >>, <<>>, FALSE)),
                  0, None, FALSE)

DictKeys == {StrV(FieldA), StrV(FieldName), IntV(1)}

DictItemValues ==
    {IntV(1), StrV(<<>>), StrV(<<"a">>), ListOfDictB1, DateTimeV(2)}

\* The dicts of at most MaxDictLen entries with distinct keys, in every
\* insertion order.
DictValues ==
    {DictV(pairs) : pairs \in
        {ps \in UNION {[1..n -> DictKeys \X DictItemValues] : n \in 0..MaxDictLen} :
            \A i, j \in 1..Len(ps) : i # j => ps[i][1] # ps[j][1]}}

NonDictValues == {NoneV, StrV(<<"a">>), ListV(<<>>)}

Schemas ==
    {<<>>,
     << <<FieldName, StringValidator(1, None, None, None)>> >>,
     << <<FieldA, ListOfDictsWithB>> >>,
     << <<FieldName, WholeNumber>>, <<FieldA, TagValidator>> >>,
     << <<FieldA, DateValidator(Some(DateV(2)), None, None)>> >>}

RequiredLists ==
    {<<>>, <<FieldName>>, <<FieldA, FieldName>>, <<FieldName, FieldB>>}

DictValidators ==
    {DictValidator(sc, rq, au) :
        sc \in Schemas, rq \in RequiredLists, au \in BOOLEAN}

\* The strings of the demonstration (lines 880-891), as characters.
JohnDoe == <<"J", "o", "h", "n", " ", "D", "o", "e">>
Thirty == <<"t", "h", "i", "r", "t", "y">>
JohnEmail == <<"j", "o", "h", "n", "@", "e", "x", "a", "m", "p", "l", "e", ".", "c", "o", "m">>
InvalidEmail == <<"i", "n", "v", "a", "l", "i", "d", "-", "e", "m", "a", "i", "l">>
DottedEmail == <<"a", ".", ".", "b", "@", "e", "x", "a", "m", "p", "l", "e", ".", "c", "o", "m">>

\* person_validator of the demonstration (lines 871-878).
PersonValidator ==
    DictValidator(<< <<FieldName, StringValidator(1, None, None, None)>>,
                     <<FieldAge, NumberValidator(Some(0), None, TRUE, TRUE, TRUE)>>,
                     <<FieldEmail, EmailValidator(FALSE)>> >>,
                  <<FieldName, FieldEmail>>, FALSE)

\* valid_person and invalid_person
ValidPerson ==
    DictV(<< <<StrV(FieldName), StrV(JohnDoe)>>, <<StrV(FieldAge), IntV(30)>>,
             <<StrV(FieldEmail), StrV(JohnEmail)>> >>)
InvalidPerson ==
    DictV(<< <<StrV(FieldName), StrV(<<>>)>>, <<StrV(FieldAge), StrV(Thirty)>>,
             <<StrV(FieldEmail), StrV(InvalidEmail)>> >>)

\* Persons with a name, an age and an email, and persons with no age.
Persons ==
    {DictV(<< <<StrV(FieldName), n>>, <<StrV(FieldAge), a>>,
              <<StrV(FieldEmail), e>> >>) :
        n \in {StrV(<<>>), StrV(JohnDoe)},
        a \in {StrV(Thirty), IntV(30), IntV(-1)},
        e \in {StrV(InvalidEmail), StrV(JohnEmail), StrV(DottedEmail)}}
    \cup {DictV(<< <<StrV(FieldEmail), e>>, <<StrV(FieldName), n>> >>) :
        n \in {StrV(<<>>), StrV(JohnDoe)},
        e \in {StrV(InvalidEmail), StrV(JohnEmail)}}

\* Email addresses: every string of "a", "." and "@" up to MaxEmailLen
\* characters (the shortest that match EMAIL_PATTERN have six), and the
\* addresses of the demonstration.
EmailAlphabet == {"a", ".", "@"}

EmailValues ==
    {StrV(s) : s \in UNION {[1..n -> EmailAlphabet] : n \in 0..MaxEmailLen}}
    \cup {StrV(JohnEmail), StrV(InvalidEmail), StrV(DottedEmail),
           StrV(JohnEmail \o <<"\n">>), NoneV, IntV(1)}

EmailValidators == {EmailValidator(allow_empty) : allow_empty \in BOOLEAN}

\* Passwords: every string of an uppercase letter, a lowercase letter, a
\* digit and a special character up to MaxPasswordLen characters, and the
\* passwords of the demonstration.
PasswordAlphabet == {"A", "a", "1", "!"}
Weak == <<"w", "e", "a", "k">>
SecurePass == <<"S", "e", "c", "u", "r", "e", "P", "@", "s", "s", "1", "2", "3">>
Pass123 == <<"p", "a", "s", "s", "1", "2", "3">>

PasswordValues ==
    {StrV(s) : s \in UNION {[1..n -> PasswordAlphabet] : n \in 0..MaxPasswordLen}}
    \cup {StrV(Weak), StrV(SecurePass), StrV(Pass123), NoneV, IntV(1)}

PasswordValidators ==
    {PasswordValidator(mn, ru, rl, rd, rs) :
        mn \in {2, 8}, ru \in BOOLEAN, rl \in BOOLEAN, rd \in BOOLEAN,
        rs \in BOOLEAN}

\* The keyword arguments of User(...) and of User.from_dict: the users of
\* the demonstration (lines 897-913) field by field, a field left out
\* taking its default, and one mapping with a key that is no parameter.
Given(key, values) == {<<>>} \cup {<< <<StrV(key), v>> >> : v \in values}

ValidUser ==
    DictV(<< <<StrV(FieldUsername), StrV(<<"j", "o", "h", "n", "_", "d", "o", "e">>)>>,
             <<StrV(FieldEmail), StrV(JohnEmail)>>,
             <<StrV(FieldPassword), StrV(SecurePass)>>,
             <<StrV(FieldAge), IntV(25)>>,
             <<StrV(FieldStatus), StrV(<<"a", "c", "t", "i", "v", "e">>)>> >>)

InvalidUser ==
    DictV(<< <<StrV(FieldUsername), StrV(<<"j">>)>>,
             <<StrV(FieldEmail), StrV(InvalidEmail)>>,
             <<StrV(FieldPassword), StrV(Weak)>>,
             <<StrV(FieldAge), IntV(10)>>,
             <<StrV(FieldStatus), StrV(<<"u", "n", "k", "n", "o", "w", "n">>)>> >>)

UserData ==
    {DictV(i \o u \o e \o p \o a \o s) :
        i \in Given(FieldId, {IntV(0)}),
        u \in Given(FieldUsername, {StrV(<<"j">>), StrV(<<"j", "o", "h", "n", "_", "d", "o", "e">>)}),
        e \in {<< <<StrV(FieldEmail), StrV(InvalidEmail)>> >>,
                << <<StrV(FieldEmail), StrV(JohnEmail)>> >>},
        p \in {<< <<StrV(FieldPassword), StrV(Weak)>> >>,
                << <<StrV(FieldPassword), StrV(SecurePass)>> >>},
        a \in Given(FieldAge, {IntV(10), IntV(25)}),
        s \in Given(FieldStatus, {StrV(<<"u", "n", "k", "n", "o", "w", "n">>),
                                  StrV(<<"a", "c", "t", "i", "v", "e">>)})}
    \cup {DictV(<< <<StrV(FieldName), StrV(JohnDoe)>> >>)}

\* What datetime.datetime.now() may return.
Nows == {DateTimeV(1), DateTimeV(2)}

\* Registration forms: the fields of the demonstration's forms (lines
\* 919-942) one by one, an optional field left out or not, and forms with
\* a field the schema does not declare.
DifferentPassword == <<"d", "i", "f", "f", "e", "r", "e", "n", "t", "_", "p", "a", "s", "s", "w", "o", "r", "d">>
Pass1234 == <<"p", "a", "s", "s", "1", "2", "3", "4">>

Profiles ==
    {DictV(<< <<StrV(FieldFirstName), StrV(<<"J", "o", "h", "n">>)>>,
              <<StrV(FieldBio), StrV(<<"S", "o", "f", "t", "w", "a", "r", "e", " ", "d", "e", "v", "e", "l", "o", "p", "e", "r">>)>> >>),
     DictV(<< <<StrV(FieldFirstName), IntV(1)>> >>)}

Forms ==
    {DictV(u \o e \o p \o c \o a \o t \o pr \o x) :
        u \in {<< <<StrV(FieldUsername), StrV(<<"j", "d">>)>> >>,
                << <<StrV(FieldUsername), StrV(<<"j", "o", "h", "n", "_", "d", "o", "e">>)>> >>},
        e \in {<< <<StrV(FieldEmail), StrV(InvalidEmail)>> >>,
                << <<StrV(FieldEmail), StrV(JohnEmail)>> >>},
        p \in {<< <<StrV(FieldPassword), StrV(Pass123)>> >>,
                << <<StrV(FieldPassword), StrV(Pass1234)>> >>,
                << <<StrV(FieldPassword), StrV(SecurePass)>> >>},
        c \in {<< <<StrV(FieldConfirmPassword), StrV(SecurePass)>> >>,
                << <<StrV(FieldConfirmPassword), StrV(Pass1234)>> >>,
                << <<StrV(FieldConfirmPassword), StrV(DifferentPassword)>> >>},
        a \in Given(FieldAge, {IntV(10), IntV(25)}),
        t \in Given(FieldTermsAccepted, {BoolV(TRUE), BoolV(FALSE)}),
        pr \in Given(FieldProfile, Profiles),
        x \in {<<>>, << <<StrV(FieldName), StrV(JohnDoe)>> >>,
                << <<IntV(1), IntV(1)>> >>}}
    \cup {NoneV}

Candidates ==
    {TagValidator, WholeNumber, BooleanValidator,
     DateValidator(Some(DateV(2)), None, None)}

UnionValidators ==
    {UnionValidator(vs) :
        vs \in UNION {[1..n -> Candidates] : n \in 0..MaxUnion}}

\* NumberValidator(min_value=13, max_value=120, integer_only=True), wrapped
\* as User._age_validator is.
AgeValidator == NumberValidator(Some(13), Some(120), TRUE, TRUE, TRUE)

OptionalValidators ==
    {OptionalValidator(inner) :
        inner \in {AgeValidator, TagValidator, DateValidator(None, Some(DateV(2)), None)}}

\* Schema sections for one property: the supported types, an array with
\* no "items", objects with and without an "additionalProperties" of
\* their own, an unsupported type tag and a section with no "type".
FieldSchemas ==
    {[type |-> "string", minLength |-> 1],
     [type |-> "integer", minimum |-> 1],
     [type |-> "array", items |-> [type |-> "string"]],
     [type |-> "array"],
     [type |-> "object", properties |-> << <<FieldB, [type |-> "string"]>> >>],
     [type |-> "object", properties |-> << <<FieldB, [type |-> "string"]>> >>,
      additionalProperties |-> FALSE],
     [type |-> "null"],
     [format |-> "email"]}

\* The properties of a schema: at most two, under distinct names.
PropertyLists ==
    {ps \in UNION {[1..n -> {FieldA, FieldName} \X FieldSchemas] : n \in 0..2} :
        \A i, j \in 1..Len(ps) : i # j => ps[i][1] # ps[j][1]}

JSONSchemas ==
    {[properties |-> ps] : ps \in PropertyLists}
    \cup {[properties |-> ps, required |-> <<FieldName>>] : ps \in PropertyLists}
    \cup {[properties |-> ps, additionalProperties |-> b] :
              ps \in PropertyLists, b \in BOOLEAN}

SchemaValues ==
    {NoneV, DictV(<<>>),
     DictV(<< <<StrV(FieldName), StrV(<<"a">>)>>, <<StrV(FieldA), ListOfDictB1>> >>),
     DictV(<< <<StrV(FieldA), IntV(1)>>, <<StrV(FieldName), IntV(1)>> >>),
     DictV(<< <<StrV(FieldA), DictB1>> >>),
     DictV(<< <<StrV(FieldA), DictV(<< <<StrV(FieldName), IntV(1)>> >>)>> >>)}
    \cup {DictV(<< <<k, x>> >>) : k \in DictKeys, x \in DictItemValues}

(***************************************************************************)
(* The state machine.  Validation is a computation on its input with no    *)
(* state of its own: a behaviour starts with a caller holding a validator  *)
(* and a value (pc = "ready"), the validate step puts the outcome of the   *)
(* call in the state (pc = "done"), and the caller may then add errors of  *)
(* its own to the result it got back.                                      *)
(***************************************************************************)
\* No database is connected while validators run.
NoDatabase == [products |-> <<>>, orders |-> <<>>, order_items |-> <<>>]

Ready(validators, values) ==
    /\ pc = "ready"
    /\ validator \in validators
    /\ value \in values
    /\ result = ValidationResult(TRUE)
    /\ raised = "none"
    /\ calls = <<>>
    /\ adds = 0
    /\ again = None
    /\ instance = None
    /\ exception = None
    /\ db = NoDatabase
    /\ order_call = None
    /\ fetched = None
    /\ ncalls = 0
    /\ request = None
    /\ response = None

\* A caller that holds a schema it has not built a validator from yet.
Holding(schemas, values) ==
    /\ pc = "schema"
    /\ validator \in {[cls |-> "schema", schema |-> sc] : sc \in schemas}
    /\ value \in values
    /\ result = ValidationResult(TRUE)
    /\ raised = "none"
    /\ calls = <<>>
    /\ adds = 0
    /\ again = None
    /\ instance = None
    /\ exception = None
    /\ db = NoDatabase
    /\ order_call = None
    /\ fetched = None
    /\ ncalls = 0
    /\ request = None
    /\ response = None

\* validator = JSONSchemaValidator(schema); an exception ends the run.
Construct ==
    /\ pc = "schema"
    /\ LET made == JSONSchemaValidator(validator.schema)
       IN  IF made.raised = "none"
           THEN /\ validator' = made.validator
                /\ pc' = "ready"
                /\ UNCHANGED raised
           ELSE /\ raised' = made.raised
                /\ pc' = "done"
                /\ UNCHANGED validator
    /\ UNCHANGED <<value, result, calls, adds, again, instance, exception>>
    /\ UNCHANGED orderVars
    /\ UNCHANGED calculatorVars

\* result = validator.validate(value)
Call(cls) ==
    /\ pc = "ready"
    /\ validator.cls = cls
    /\ \E outcome \in {validate(validator, value)} :
           /\ result' = outcome.result
           /\ raised' = outcome.raised
           /\ calls' = outcome.calls
    /\ pc' = "done"
    /\ UNCHANGED <<validator, value, adds, again, instance, exception>>
    /\ UNCHANGED orderVars
    /\ UNCHANGED calculatorVars

\* A variant in which the results of the two calls share one list of
\* errors, so that the second call adds to what the first one left.
CallAgain_shared_errors ==
    /\ pc = "done"
    /\ validator.cls \notin {"schema", "User", "validate_registration_form"}
    /\ again = None
    /\ \E outcome \in {validate(validator, value)} :
           again' = Some([outcome EXCEPT
                             !.result.errors = result.errors \o @,
                             !.result.is_valid = result.is_valid /\ @])
    /\ UNCHANGED <<pc, validator, value, result, raised, calls, adds,
                   instance, exception>>
    /\ UNCHANGED orderVars
    /\ UNCHANGED calculatorVars

\* A second validator.validate(value), on the same validator and value,
\* whose outcome the caller keeps next to the first one.
CallAgain ==
    /\ pc = "done"
    /\ validator.cls \notin {"schema", "User", "validate_registration_form"}
    /\ again = None
    /\ again' = Some(validate(validator, value))
    /\ UNCHANGED <<pc, validator, value, result, raised, calls, adds,
                   instance, exception>>
    /\ UNCHANGED orderVars
    /\ UNCHANGED calculatorVars

ValidateString == Call("StringValidator")
ValidateNumber == Call("NumberValidator")
ValidateBoolean == Call("BooleanValidator")
ValidateDate == Call("DateValidator")

\* result.add_error(error) by the caller, on a result a call returned.
CallerErrors ==
    {[ValidationError("Passwords do not match")
         EXCEPT !.field = Some("confirm_password")],
     [ValidationError("You must accept the terms and conditions")
         EXCEPT !.field = Some("terms_accepted")]}

AddError ==
    /\ pc = "done"
    /\ raised = "none"
    /\ adds < MaxAdds
    /\ \E error \in CallerErrors : result' = add_error(result, error)
    /\ adds' = adds + 1
    /\ UNCHANGED <<pc, validator, value, raised, calls, again, instance, exception>>
    /\ UNCHANGED orderVars
    /\ UNCHANGED calculatorVars

ValidateList == Call("ListValidator")
ValidateDict == Call("DictValidator")
ValidateUnion == Call("UnionValidator")
ValidateOptional == Call("OptionalValidator")
ValidateJSONSchema == Call("JSONSchemaValidator")

\* The primitive validators alone.
InitPrim ==
    Ready(StringValidators \cup NumberValidators \cup {BooleanValidator}
          \cup DateValidators, PrimValues)

NextPrim ==
    \/ ValidateString
    \/ ValidateNumber
    \/ ValidateBoolean
    \/ ValidateDate
    \/ AddError
    \/ CallAgain

SpecPrim == InitPrim /\ [][NextPrim]_vars

\* The composite validators alone.
InitComp ==
    \/ Ready(ListValidators, ListValues \cup NonListValues)
    \/ Ready(DictValidators, DictValues \cup NonDictValues)
    \/ Ready({PersonValidator}, Persons)
    \/ Ready(UnionValidators \cup OptionalValidators, PrimValues)

NextComp ==
    \/ ValidateList
    \/ ValidateDict
    \/ ValidateUnion
    \/ ValidateOptional
    \/ AddError
    \/ CallAgain

SpecComp == InitComp /\ [][NextComp]_vars

\* Validators built from JSON schemas alone.
InitSchema == Holding(JSONSchemas, SchemaValues)

NextSchema ==
    \/ Construct
    \/ ValidateJSONSchema
    \/ AddError
    \/ CallAgain

SpecSchema == InitSchema /\ [][NextSchema]_vars

\* user = User(**value); result = user.validate(), for keyword arguments
\* that User accepts.
ModelValidate ==
    /\ pc = "ready"
    /\ validator.cls = "User"
    /\ \E now \in Nows :
          \E made \in {User_init(value, now)} :
              /\ made.raised = "none"
              /\ instance' = made.instance
              /\ \E outcome \in {ValidatedModel_validate(validator,
                                                         Get(made.instance))} :
                     /\ result' = outcome.result
                     /\ raised' = outcome.raised
                     /\ calls' = outcome.calls
    /\ pc' = "done"
    /\ UNCHANGED <<validator, value, adds, again, exception>>
    /\ UNCHANGED orderVars
    /\ UNCHANGED calculatorVars

\* user = User.from_dict(value)
FromDict ==
    /\ pc = "ready"
    /\ validator.cls = "User"
    /\ \E now \in Nows :
          \E handed \in {from_dict(validator, value, now)} :
              /\ instance' = handed.instance
              /\ result' = handed.result
              /\ calls' = handed.calls
              /\ raised' = handed.raised
              /\ exception' = handed.exception
    /\ pc' = "from_dict_done"
    /\ UNCHANGED <<validator, value, adds, again>>
    /\ UNCHANGED orderVars
    /\ UNCHANGED calculatorVars

\* The User model alone.
InitModel == Ready({User}, UserData)

NextModel ==
    \/ ModelValidate
    \/ FromDict
    \/ AddError

SpecModel == InitModel /\ [][NextModel]_vars

\* result = validate_registration_form(value)
ValidateRegistrationForm ==
    /\ pc = "ready"
    /\ validator.cls = "validate_registration_form"
    /\ \E outcome \in {validate_registration_form(value)} :
           /\ result' = outcome.result
           /\ raised' = outcome.raised
           /\ calls' = outcome.calls
    /\ pc' = "done"
    /\ UNCHANGED <<validator, value, adds, again, instance, exception>>
    /\ UNCHANGED orderVars
    /\ UNCHANGED calculatorVars

\* The registration form alone.
InitForm == Ready({[cls |-> "validate_registration_form"]}, Forms)

NextForm == ValidateRegistrationForm

SpecForm == InitForm /\ [][NextForm]_vars

ValidateEmail == Call("EmailValidator")
ValidatePassword == Call("PasswordValidator")

\* The validators of the common patterns alone.
InitPattern ==
    \/ Ready(EmailValidators, EmailValues)
    \/ Ready(PasswordValidators, PasswordValues)

NextPattern ==
    \/ ValidateEmail
    \/ ValidatePassword
    \/ AddError
    \/ CallAgain

SpecPattern == InitPattern /\ [][NextPattern]_vars

\* The whole framework.
Init ==
    InitPrim \/ InitComp \/ InitSchema \/ InitPattern \/ InitModel \/ InitForm

Next ==
    \/ ValidateString
    \/ ValidateNumber
    \/ ValidateBoolean
    \/ ValidateDate
    \/ ValidateList
    \/ ValidateDict
    \/ ValidateUnion
    \/ ValidateOptional
    \/ Construct
    \/ ValidateJSONSchema
    \/ ValidateEmail
    \/ ValidatePassword
    \/ ModelValidate
    \/ FromDict
    \/ ValidateRegistrationForm
    \/ AddError
    \/ CallAgain

Spec == Init /\ [][Next]_vars

(***************************************************************************)
(* validate_arguments: the wrapper around a function func(a, b), called    *)
(* with both parameters bound.  calls lists the parameters in the order    *)
(* their validators ran, followed by "func()" when the function was        *)
(* called.                                                                 *)
(***************************************************************************)
FuncName == "func"
FuncCalled == "func()"

\* lines 558-562: what the wrapper does with the result of one parameter.
wrapper_param(r, c, param_name, param_result) ==
    IF param_result.raised # "none"
    THEN Raised(param_result.raised, Append(c, Text(param_name)))
    ELSE Returned(IF ~param_result.result.is_valid
                  THEN AddPrefixed(r, param_result.result.errors,
                                   Text(param_name))
                  ELSE r,
                  Append(c, Text(param_name)))

RECURSIVE wrapper_rest(_, _, _, _)

\* lines 555-562: the loop over validators.items() from its k-th item on;
\* r.errors is validation_errors.
RECURSIVE wrapper_loop(_, _, _, _, _)
wrapper_loop(validators, arguments, k, r, c) ==
    IF k > Len(validators) THEN Returned(r, c)
    ELSE IF ~HasKey(arguments, validators[k][1])
    THEN wrapper_loop(validators, arguments, k + 1, r, c)
    ELSE wrapper_rest(validators, arguments, k,
             wrapper_param(r, c, validators[k][1],
                 validate(validators[k][2],
                          Lookup(arguments, validators[k][1]))))

\* The items that follow the k-th one, unless its validator raised.
wrapper_rest(validators, arguments, k, so_far) ==
    IF so_far.raised # "none" THEN so_far
    ELSE wrapper_loop(validators, arguments, k + 1, so_far.result,
                      so_far.calls)

\* lines 564-571: the ValidationError for validation_errors, or the call
\* of the function.
wrapper_end(func_name, outcome) ==
    IF outcome.raised # "none"
    THEN Handed(None, outcome, outcome.raised, None)
    ELSE IF outcome.result.errors # <<>>
    THEN Handed(None, outcome, "ValidationError",
             Some(ValidationErrorWithDetails(
                      "Invalid arguments for " \o func_name,
                      Messages(outcome.result.errors))))
    ELSE Handed(None, [outcome EXCEPT !.calls = Append(@, FuncCalled)],
                "none", None)

\* wrapper(*args, **kwargs), lines 544-571
wrapper(func_name, validators, arguments) ==
    wrapper_end(func_name,
        wrapper_loop(validators, arguments, 1, ValidationResult(TRUE), <<>>))

\* The decorated functions: validators for a, for b, for both or for
\* neither, and possibly one for a name that is no parameter of func.
FieldC == <<"c">>

ParamValidators ==
    {StringValidator(2, None, Some(UsernamePattern), None), WholeNumber,
     DateValidator(Some(DateV(2)), None, None)}

ParamValues ==
    {StrV(<<>>), StrV(<<"a", "b">>), IntV(0), IntV(1), DateV(1), DateTimeV(2)}

Decorated ==
    {[cls |-> "validate_arguments", name |-> FuncName,
      validators |-> va \o vb \o vc] :
        va \in {<<>>} \cup {<< <<FieldA, v>> >> : v \in ParamValidators},
        vb \in {<<>>} \cup {<< <<FieldB, v>> >> : v \in ParamValidators},
        vc \in {<<>>, << <<FieldC, WholeNumber>> >>}}

BoundArguments ==
    {DictV(<< <<StrV(FieldA), a>>, <<StrV(FieldB), b>> >>) :
        a \in ParamValues, b \in ParamValues}

InitWrapper == Ready(Decorated, BoundArguments)

\* func(a, b) on the decorated function
CallWrapped ==
    /\ pc = "ready"
    /\ validator.cls = "validate_arguments"
    /\ \E handed \in {wrapper(validator.name, validator.validators,
                              value.pairs)} :
           /\ result' = handed.result
           /\ calls' = handed.calls
           /\ raised' = handed.raised
           /\ exception' = handed.exception
    /\ pc' = "wrapper_done"
    /\ UNCHANGED <<validator, value, adds, again, instance>>
    /\ UNCHANGED orderVars
    /\ UNCHANGED calculatorVars

NextWrapper == CallWrapped

SpecWrapper == InitWrapper /\ [][NextWrapper]_vars

(***************************************************************************)
(* The order service of integration_testing.py.  The database is the      *)
(* three tables the service reads and writes; rows are kept in insertion   *)
(* order and an INTEGER PRIMARY KEY is the row's position, as no row is    *)
(* ever deleted.  Prices are whole numbers of cents.                       *)
(***************************************************************************)
\* How many create_order calls a behaviour makes.
MaxCalls == 2

\* A sqlite3 connection: what has been committed, and what the statements
\* of the open transaction see.
Connection(database) == [committed |-> database, working |-> database]

commit(conn) == [conn EXCEPT !.committed = conn.working]

rollback(conn) == [conn EXCEPT !.working = conn.committed]

\* SELECT * FROM products WHERE id = ?; None stands for the ValueError.
get_product(database, product_id) ==
    LET rows == {i \in 1..Len(database.products) :
                     database.products[i].id = product_id}
    IN  IF rows = {} THEN None
        ELSE Some(database.products[CHOOSE i \in rows : TRUE])

\* UPDATE products SET stock = stock + ?, then a commit of the connection,
\* and only then the ValueError for a product that is not there.
update_stock(conn, product_id, quantity) ==
    LET products == conn.working.products
        rows == {i \in 1..Len(products) : products[i].id = product_id}
        updated == [i \in 1..Len(products) |->
                       IF i \in rows
                       THEN [products[i] EXCEPT !.stock = @ + quantity]
                       ELSE products[i]]
    IN  [conn |-> commit([conn EXCEPT !.working.products = updated]),
         raised |-> IF rows = {} THEN "ValueError" ELSE "none"]

\* The loop that validates the items and adds up the total, from item k on.
RECURSIVE validate_items(_, _, _, _, _)
validate_items(database, items, k, total_amount, order_items) ==
    IF k > Len(items)
    THEN [raised |-> "none", total_amount |-> total_amount,
          order_items |-> order_items]
    ELSE LET item == items[k]
             product == get_product(database, item.product_id)
             failed == [raised |-> "ValueError", total_amount |-> total_amount,
                        order_items |-> order_items]
         IN  IF IsNone(product) THEN failed
             ELSE IF Get(product).stock < item.quantity THEN failed
             ELSE validate_items(database, items, k + 1,
                      total_amount + Get(product).price * item.quantity,
                      Append(order_items,
                             [product_id |-> item.product_id,
                              quantity |-> item.quantity,
                              price |-> Get(product).price]))

\* The loop that stores the order's items and takes them out of the stock,
\* from item k on.
RECURSIVE add_order_items(_, _, _, _)
add_order_items(conn, order_id, order_items, k) ==
    IF k > Len(order_items) THEN [conn |-> conn, raised |-> "none"]
    ELSE LET item == order_items[k]
             rows == conn.working.order_items
             inserted == [conn EXCEPT !.working.order_items =
                             Append(rows, [id |-> Len(rows) + 1,
                                           order_id |-> order_id,
                                           product_id |-> item.product_id,
                                           quantity |-> item.quantity,
                                           price |-> item.price])]
             stocked == update_stock(inserted, item.product_id,
                                     0 - item.quantity)
         IN  IF stocked.raised # "none" THEN stocked
             ELSE add_order_items(stocked.conn, order_id, order_items, k + 1)

\* The payment service as create_order sees it: it answers with a status,
\* or raises RuntimeError when the request fails.
process_payment(amount, card_details, reply) ==
    IF reply = "raises" THEN [raised |-> "RuntimeError", status |-> "none"]
    ELSE [raised |-> "none", status |-> reply]

\* An INSERT INTO orders that stores every order as pending.
insert_order_pending(conn, user_id, total_amount, payment_details) ==
    LET rows == conn.working.orders
    IN  [conn EXCEPT !.working.orders =
            Append(rows, [id |-> Len(rows) + 1,
                          user_id |-> user_id,
                          total_amount |-> total_amount,
                          status |-> "pending"])]

\* The INSERT INTO orders of create_order.
insert_order(conn, user_id, total_amount, payment_details) ==
    LET rows == conn.working.orders
    IN  [conn EXCEPT !.working.orders =
            Append(rows, [id |-> Len(rows) + 1,
                          user_id |-> user_id,
                          total_amount |-> total_amount,
                          status |-> IF Truthy(payment_details)
                                     THEN "paid" ELSE "pending"])]

\* The same steps with the payment taken after the items are stored.
order_transaction_pays_last(conn, user_id, checked, payment_details, reply) ==
    LET ordered == insert_order(conn, user_id, checked.total_amount,
                               payment_details)
        order_id == Len(ordered.working.orders)
        added == add_order_items(ordered, order_id, checked.order_items, 1)
        paid == IF Truthy(payment_details)
                THEN process_payment(checked.total_amount, payment_details,
                                     reply)
                ELSE [raised |-> "none", status |-> "success"]
        payments == IF Truthy(payment_details)
                    THEN << [amount |-> checked.total_amount,
                             card_details |-> payment_details] >>
                    ELSE <<>>
    IN  IF added.raised # "none"
        THEN [conn |-> added.conn, raised |-> added.raised,
              order_id |-> None, payments |-> <<>>]
        ELSE IF paid.raised # "none" \/ paid.status # "success"
        THEN [conn |-> added.conn, raised |-> "RuntimeError",
              order_id |-> None, payments |-> payments]
        ELSE [conn |-> commit(added.conn), raised |-> "none",
              order_id |-> Some(order_id), payments |-> payments]

\* The body of create_order's try block: the payment, the order row, its
\* items, the commit.
order_transaction(conn, user_id, checked, payment_details, reply) ==
    LET paid == IF Truthy(payment_details)
                THEN process_payment(checked.total_amount, payment_details,
                                     reply)
                ELSE [raised |-> "none", status |-> "success"]
        payments == IF Truthy(payment_details)
                    THEN << [amount |-> checked.total_amount,
                             card_details |-> payment_details] >>
                    ELSE <<>>
        ordered == insert_order(conn, user_id, checked.total_amount,
                               payment_details)
        order_id == Len(ordered.working.orders)
        added == add_order_items(ordered, order_id, checked.order_items, 1)
    IN  IF paid.raised # "none" \/ paid.status # "success"
        THEN [conn |-> conn, raised |-> "RuntimeError",
              order_id |-> None, payments |-> payments]
        ELSE IF added.raised # "none"
        THEN [conn |-> added.conn, raised |-> added.raised,
              order_id |-> None, payments |-> payments]
        ELSE [conn |-> commit(added.conn), raised |-> "none",
              order_id |-> Some(order_id), payments |-> payments]

\* OrderService.create_order: the database it leaves, what it raised, the
\* order id it returned and the calls it made to the payment service.
create_order(database, user_id, items, payment_details, reply) ==
    LET checked == validate_items(database, items, 1, 0, <<>>)
        body == order_transaction(Connection(database), user_id, checked,
                                  payment_details, reply)
        closed == IF body.raised = "none" THEN body.conn
                  ELSE rollback(body.conn)
    IN  IF checked.raised # "none"
        THEN [db |-> database, raised |-> checked.raised,
              order_id |-> None, payments |-> <<>>]
        ELSE [db |-> closed.committed, raised |-> body.raised,
              order_id |-> body.order_id, payments |-> body.payments]

\* get_order with the items of every order, not only of the one asked for.
get_order_unfiltered(database, order_id) ==
    LET rows == {i \in 1..Len(database.orders) :
                     database.orders[i].id = order_id}
    IN  IF rows = {} THEN [raised |-> "ValueError"]
        ELSE [raised |-> "none",
              order |-> database.orders[CHOOSE i \in rows : TRUE],
              items |-> database.order_items]

\* OrderService.get_order: the order row with its items.
get_order(database, order_id) ==
    LET rows == {i \in 1..Len(database.orders) :
                     database.orders[i].id = order_id}
        IsOf(item) == item.order_id = order_id
    IN  IF rows = {} THEN [raised |-> "ValueError"]
        ELSE [raised |-> "none",
              order |-> database.orders[CHOOSE i \in rows : TRUE],
              items |-> SelectSeq(database.order_items, IsOf)]

\* What the tests put in the database before they order: two products.
ProductIds == {1, 2}
MissingProduct == 999999
InitialStocks == {1, 2}
Price(product_id) == product_id + 1

Products(stock) ==
    [i \in 1..2 |-> [id |-> i, price |-> Price(i), stock |-> stock[i]]]

\* The orders a caller places: no item, one item of any product, known or
\* not, or one unit of product 1 followed by any second item, product 1
\* again included.
Quantities == {1, 2, 3}
Items == [product_id : ProductIds \cup {MissingProduct}, quantity : Quantities]
ItemLists ==
    {<<>>} \cup {<<item>> : item \in Items}
           \cup {<<[product_id |-> 1, quantity |-> 1], item>> : item \in Items}

CardDetails ==
    DictV(<< <<StrV(<<"c", "v", "v">>), StrV(<<"1", "2", "3">>)>> >>)
PaymentDetails == {NoneV, DictV(<<>>), CardDetails}
Replies == {"success", "failed", "raises"}
TestUser == 1

\* The caller's state once the tables hold the test products.
InitOrders ==
    /\ pc = "orders"
    /\ validator = NoneV
    /\ value = NoneV
    /\ result = ValidationResult(TRUE)
    /\ raised = "none"
    /\ calls = <<>>
    /\ adds = 0
    /\ again = None
    /\ instance = None
    /\ exception = None
    /\ \E stock \in [1..2 -> InitialStocks] :
           db = [products |-> Products(stock), orders |-> <<>>,
                 order_items |-> <<>>]
    /\ order_call = None
    /\ fetched = None
    /\ ncalls = 0
    /\ request = None
    /\ response = None

\* order_service.create_order(user_id, items, payment_details); the call is
\* kept with the database it found and what came of it.
CreateOrder ==
    /\ pc = "orders"
    /\ ncalls < MaxCalls
    /\ \E items \in ItemLists, payment_details \in PaymentDetails,
          reply \in Replies :
           /\ ~Truthy(payment_details) => reply = "success"
           /\ LET out == create_order(db, TestUser, items, payment_details,
                                      reply)
              IN  /\ db' = out.db
                  /\ order_call' = Some([user_id |-> TestUser,
                                         items |-> items,
                                         payment_details |-> payment_details,
                                         reply |-> reply,
                                         before |-> db,
                                         raised |-> out.raised,
                                         order_id |-> out.order_id,
                                         payments |-> out.payments])
    /\ fetched' = None
    /\ ncalls' = ncalls + 1
    /\ UNCHANGED validationVars
    /\ UNCHANGED calculatorVars

\* order_service.get_order(order_id) for the order just created.
GetOrder ==
    /\ pc = "orders"
    /\ ~IsNone(order_call)
    /\ Get(order_call).raised = "none"
    /\ IsNone(fetched)
    /\ fetched' = Some(get_order(db, Get(Get(order_call).order_id)))
    /\ UNCHANGED <<db, order_call, ncalls>>
    /\ UNCHANGED validationVars
    /\ UNCHANGED calculatorVars

NextOrders == CreateOrder \/ GetOrder

SpecOrders == InitOrders /\ [][NextOrders]_vars

(***************************************************************************)
(* The calculator of functional_demo.py.  An operand is a Python int or a  *)
(* Python float; a float is kept as the fraction num / den times           *)
(* 10^(200 * e), which tells a float that overflows (e >= 2: above the     *)
(* largest double) from one that does not, and the sign of a zero is not   *)
(* kept.                                                                   *)
(***************************************************************************)
\* The largest int operand.
MaxOperand == 2

RECURSIVE Gcd(_, _)
Gcd(a, b) == IF b = 0 THEN a ELSE Gcd(b, a % b)

Abs(n) == IF n < 0 THEN 0 - n ELSE n

RECURSIVE IntPow(_, _)
IntPow(base, n) == IF n = 0 THEN 1 ELSE base * IntPow(base, n - 1)

Float(num, den, e) == [t |-> "float", num |-> num, den |-> den, e |-> e]

FloatZero == Float(0, 1, 0)

Inf(sign) == [t |-> "float", inf |-> sign]

\* The float of the fraction num / den times 10^(200 * e), den # 0: in
\* lowest terms, 0.0 when it underflows, an overflow when it is too large.
Rounded(num, den, e) ==
    IF num = 0 \/ e < -1 THEN FloatZero
    ELSE IF e > 1 THEN [t |-> "overflow"]
    ELSE LET g == Gcd(Abs(num), Abs(den))
             sign == IF (num < 0) # (den < 0) THEN -1 ELSE 1
         IN  Float(sign * (Abs(num) \div g), Abs(den) \div g, e)

\* float(x)
ToFloat(x) == IF x.t = "int" THEN Float(x.n, 1, 0) ELSE x

IsZero(x) == IF x.t = "int" THEN x.n = 0 ELSE x.num = 0

Sign(x) == IF x.num < 0 THEN -1 ELSE 1

\* An arithmetic result: a value, or the exception the operator raised.
Value(v) == [raised |-> "none", value |-> v, message |-> ""]

Raise(exc, message) == [raised |-> exc, value |-> NoneV, message |-> message]

\* x + y on floats: the larger magnitude absorbs the smaller one.
float_add(x, y) ==
    IF x.num = 0 THEN y
    ELSE IF y.num = 0 THEN x
    ELSE IF x.e > y.e THEN x
    ELSE IF y.e > x.e THEN y
    ELSE Rounded(x.num * y.den + y.num * x.den, x.den * y.den, x.e)

float_neg(x) == Float(0 - x.num, x.den, x.e)

\* x * y on floats: a product that is too large is inf, not an exception.
float_mul(x, y) ==
    LET product == Rounded(x.num * y.num, x.den * y.den, x.e + y.e)
    IN  IF product.t = "overflow" THEN Inf(Sign(x) * Sign(y)) ELSE product

\* x / y on floats, y # 0.
float_div(x, y) ==
    LET quotient == Rounded(x.num * y.den, x.den * y.num, x.e - y.e)
    IN  IF quotient.t = "overflow" THEN Inf(Sign(x) * Sign(y)) ELSE quotient

\* x ** y on floats where y is a whole number: float.__pow__.
float_pow(x, y) ==
    IF y.num = 0 THEN Value(Float(1, 1, 0))
    ELSE IF x.num = 0
    THEN IF y.num < 0
         THEN Raise("ZeroDivisionError",
                    "0.0 cannot be raised to a negative power")
         ELSE Value(FloatZero)
    ELSE IF y.e > 0
    THEN \* an exponent of the size of 1e200, an even whole number
         IF Abs(x.num) = x.den /\ x.e = 0 THEN Value(Float(1, 1, 0))
         ELSE IF (Abs(x.num) > x.den \/ x.e > 0) # (y.num < 0)
         THEN Raise("OverflowError", "(34, 'Numerical result out of range')")
         ELSE Value(FloatZero)
    ELSE LET n == Abs(y.num) \div y.den
             up == Rounded(IntPow(x.num, n), IntPow(x.den, n), x.e * n)
             down == Rounded(IntPow(x.den, n), IntPow(x.num, n), 0 - x.e * n)
             power == IF y.num > 0 THEN up ELSE down
         IN  IF power.t = "overflow"
             THEN Raise("OverflowError", "(34, 'Numerical result out of range')")
             ELSE Value(power)

\* base ** exponent: int.__pow__ for two ints, float.__pow__ otherwise.
Pow(base, exponent) ==
    IF base.t = "int" /\ exponent.t = "int"
    THEN IF exponent.n >= 0 THEN Value(IntV(IntPow(base.n, exponent.n)))
         ELSE float_pow(ToFloat(base), ToFloat(exponent))
    ELSE float_pow(ToFloat(base), ToFloat(exponent))

\* Calculator.add, subtract, multiply: lines 43-53.
Calculator_add(a, b) ==
    IF a.t = "int" /\ b.t = "int" THEN Value(IntV(a.n + b.n))
    ELSE Value(float_add(ToFloat(a), ToFloat(b)))

Calculator_subtract(a, b) ==
    IF a.t = "int" /\ b.t = "int" THEN Value(IntV(a.n - b.n))
    ELSE Value(float_add(ToFloat(a), float_neg(ToFloat(b))))

Calculator_multiply(a, b) ==
    IF a.t = "int" /\ b.t = "int" THEN Value(IntV(a.n * b.n))
    ELSE Value(float_mul(ToFloat(a), ToFloat(b)))

\* Calculator.divide, lines 55-59
Calculator_divide(a, b) ==
    IF IsZero(b)
    THEN Raise("CalculationError", "Division by zero is not allowed")
    ELSE Value(float_div(ToFloat(a), ToFloat(b)))

\* Calculator.power, lines 61-66: only OverflowError is caught.
Calculator_power(base, exponent) ==
    IF Pow(base, exponent).raised = "OverflowError"
    THEN Raise("CalculationError", "Result too large to compute")
    ELSE Pow(base, exponent)

\* The if/elif chain of process_calculation, lines 81-92.
Calculated(operation, a, b) ==
    CASE operation = "add" -> Calculator_add(a, b)
      [] operation = "subtract" -> Calculator_subtract(a, b)
      [] operation = "multiply" -> Calculator_multiply(a, b)
      [] operation = "divide" -> Calculator_divide(a, b)
      [] operation = "power" -> Calculator_power(a, b)
      [] OTHER -> Raise("CalculationError", "Unknown operation: " \o operation)

\* What process_calculation makes of the outcome, lines 94-106: a mapping
\* for a result and for a CalculationError, and the exception itself for
\* any other exception.
Responded(operation, a, b, calculated) ==
    IF calculated.raised = "none"
    THEN [raised |-> "none",
          returned |-> Some([status |-> "success", operation |-> operation,
                             operands |-> [a |-> a, b |-> b],
                             result |-> calculated.value])]
    ELSE IF calculated.raised = "CalculationError"
    THEN [raised |-> "none",
          returned |-> Some([status |-> "error", operation |-> operation,
                             operands |-> [a |-> a, b |-> b],
                             message |-> calculated.message])]
    ELSE [raised |-> calculated.raised, returned |-> None]

\* CalculatorAPI.process_calculation(operation, a, b), lines 77-106
process_calculation(operation, a, b) ==
    Responded(operation, a, b, Calculated(operation, a, b))

\* The requests: the five operations and a name that is none of them, on
\* ints, on 0.0 and on 1e200.
Operations ==
    {"add", "subtract", "multiply", "divide", "power", "invalid_op"}

Operands ==
    {IntV(n) : n \in (0 - MaxOperand)..MaxOperand}
        \cup {FloatZero, Float(1, 1, 1)}

InitCalculator ==
    /\ pc = "calculator"
    /\ validator = NoneV
    /\ value = NoneV
    /\ result = ValidationResult(TRUE)
    /\ raised = "none"
    /\ calls = <<>>
    /\ adds = 0
    /\ again = None
    /\ instance = None
    /\ exception = None
    /\ db = NoDatabase
    /\ order_call = None
    /\ fetched = None
    /\ ncalls = 0
    /\ request \in {Some([operation |-> operation, a |-> a, b |-> b]) :
                       operation \in Operations, a \in Operands,
                       b \in Operands}
    /\ response = None

\* response = api.process_calculation(operation, a, b)
ProcessCalculation ==
    /\ pc = "calculator"
    /\ IsNone(response)
    /\ response' = Some(process_calculation(Get(request).operation,
                                            Get(request).a, Get(request).b))
    /\ UNCHANGED request
    /\ UNCHANGED validationVars
    /\ UNCHANGED orderVars

NextCalculator == ProcessCalculation

SpecCalculator == InitCalculator /\ [][NextCalculator]_vars

(***************************************************************************)
(* The claims.                                                             *)
(***************************************************************************)
HasMessage(r, m) == \E i \in 1..Len(r.errors) : r.errors[i].message = m

\* The call is over and the caller has not touched what it handed back.
Done == pc = "done" /\ adds = 0

\* C1: a result that a validate call returned, also after the caller
\* added errors to it with add_error, is valid if and only if its sequence
\* of errors is empty; this includes the aggregate result of a
\* UnionValidator whose candidates all failed.
C1_ValidIffNoErrors ==
    (pc = "done" /\ raised = "none" /\ validator.cls # "schema")
        => (result.is_valid <=> result.errors = <<>>)

C1_Witness ==
    /\ pc = "done"
    /\ validator.cls = "UnionValidator"
    /\ Len(validator.validators) = 2
    /\ raised = "none"
    /\ adds = 1
    /\ Len(result.errors) = 2
    /\ ~result.is_valid

\* The value is not an instance of the type the primitive validator
\* expects.  As isinstance has it, a bool is an int and a datetime is a
\* date; a DateValidator with a format_str expects a str as well.
WrongType(self, v) ==
    CASE self.cls = "StringValidator" -> v.t # "str"
      [] self.cls = "NumberValidator" ->
            IF self.integer_only THEN v.t \notin {"int", "bool"}
            ELSE v.t \notin {"int", "bool", "float"}
      [] self.cls = "BooleanValidator" -> v.t # "bool"
      [] self.cls = "DateValidator" ->
            /\ v.t \notin {"date", "datetime"}
            /\ ~(v.t = "str" /\ ~IsNone(self.format_str))

ExpectedName(self) ==
    CASE self.cls = "StringValidator" -> "string"
      [] self.cls = "NumberValidator" ->
            IF self.integer_only THEN "integer" ELSE "number"
      [] self.cls = "BooleanValidator" -> "boolean"
      [] self.cls = "DateValidator" -> "date"

Primitives ==
    {"StringValidator", "NumberValidator", "BooleanValidator", "DateValidator"}

\* C2: a primitive validator given a value of the wrong runtime type
\* returns a result with exactly one error, the type-mismatch error, and no
\* length, range, pattern, sign or allowed-value error with it.
C2_WrongTypeOneError ==
    (Done /\ validator.cls \in Primitives /\ WrongType(validator, value))
        => /\ raised = "none"
           /\ ~result.is_valid
           /\ result.errors =
                  <<ValidationError("Expected " \o ExpectedName(validator)
                                    \o " but got " \o TypeName(value))>>

C2_Witness ==
    /\ Done
    /\ validator = NumberValidator(None, Some(1), TRUE, FALSE, FALSE)
    /\ value = FloatV(6)
    /\ Len(result.errors) = 1

\* The constraints of a NumberValidator that a numeric value violates.
Below(self, v) == ~IsNone(self.min_value) /\ Num2(v) < 2 * Get(self.min_value)
Above(self, v) == ~IsNone(self.max_value) /\ Num2(v) > 2 * Get(self.max_value)
Negative(self, v) == ~self.allow_negative /\ Num2(v) < 0
Zero(self, v) == ~self.allow_zero /\ Num2(v) = 0

\* NumberValidator(min_value=0, max_value=120, integer_only=True)
DemoAgeValidator == NumberValidator(Some(0), Some(120), TRUE, TRUE, TRUE)

\* C8: with integer_only a NumberValidator rejects every value that is not
\* an int, a whole float such as 3.0 included; min_value and max_value are
\* inclusive, so a value equal to a bound gets no range error (and is valid
\* when nothing else forbids it), and a value strictly outside is invalid
\* with the range error, as 150 is for max_value=120.
C8_IntegerOnlyAndInclusiveBounds ==
    (Done /\ validator.cls = "NumberValidator")
        => /\ raised = "none"
           /\ (validator.integer_only /\ value.t \notin {"int", "bool"})
                 => /\ ~result.is_valid
                    /\ result.errors = <<ValidationError(
                           "Expected integer but got " \o TypeName(value))>>
           /\ ~WrongType(validator, value)
                 => /\ Below(validator, value)
                       <=> (/\ ~IsNone(validator.min_value)
                            /\ HasMessage(result, "Value must be at least "
                                   \o IntText(Get(validator.min_value))))
                    /\ Above(validator, value)
                       <=> (/\ ~IsNone(validator.max_value)
                            /\ HasMessage(result, "Value must not exceed "
                                   \o IntText(Get(validator.max_value))))
                    /\ (Below(validator, value) \/ Above(validator, value))
                          => ~result.is_valid
                    /\ (/\ ~Below(validator, value) /\ ~Above(validator, value)
                        /\ ~Negative(validator, value) /\ ~Zero(validator, value))
                          => result.is_valid
           /\ (validator = DemoAgeValidator /\ value = IntV(150))
                 => result.errors = <<ValidationError("Value must not exceed 120")>>
           /\ (validator = DemoAgeValidator /\ value = FloatV(6))
                 => ~result.is_valid

C8_Witness ==
    /\ Done
    /\ validator = DemoAgeValidator
    /\ value = IntV(120)
    /\ result.is_valid

\* The constraints of a StringValidator that a str violates; an
\* allowed_values that is None or empty constrains nothing.
StringViolations(self, v) ==
    {c \in {"min_length", "max_length", "pattern", "allowed_values"} :
        CASE c = "min_length" -> Len(v.s) < self.min_length
          [] c = "max_length" ->
                ~IsNone(self.max_length) /\ Len(v.s) > Get(self.max_length)
          [] c = "pattern" ->
                ~IsNone(self.pattern) /\ ~Match(Get(self.pattern), v.s)
          [] c = "allowed_values" ->
                /\ ~IsNone(self.allowed_values)
                /\ Get(self.allowed_values) # <<>>
                /\ v.s \notin {Get(self.allowed_values)[i] :
                                  i \in 1..Len(Get(self.allowed_values))}}

NumberViolations(self, v) ==
    {c \in {"min_value", "max_value", "allow_negative", "allow_zero"} :
        CASE c = "min_value" -> Below(self, v)
          [] c = "max_value" -> Above(self, v)
          [] c = "allow_negative" -> Negative(self, v)
          [] c = "allow_zero" -> Zero(self, v)}

\* C9: once the type check has passed, a StringValidator or
\* NumberValidator appends one error for each violated constraint and stops
\* at none: the result holds as many errors as constraints are violated.
C9_OneErrorPerViolation ==
    /\ (Done /\ validator.cls = "StringValidator" /\ value.t = "str")
          => /\ raised = "none"
             /\ Len(result.errors) = Cardinality(StringViolations(validator, value))
    /\ (Done /\ validator.cls = "NumberValidator"
        /\ ~WrongType(validator, value))
          => /\ raised = "none"
             /\ Len(result.errors) = Cardinality(NumberViolations(validator, value))

C9_Witness ==
    /\ Done
    /\ validator.cls = "StringValidator"
    /\ value = StrV(<<"!">>)
    /\ Len(result.errors) = 3

\* {"a": [{"b": 1}]} and the validator of the claim: a DictValidator whose
\* field a is a ListValidator of DictValidators whose field b is a
\* StringValidator.
NestedValidator == DictValidator(<< <<FieldA, ListOfDictsWithB>> >>, <<>>, FALSE)
NestedValue == DictV(<< <<StrV(FieldA), ListOfDictB1>> >>)

\* C3: validating {"a": [{"b": 1}]} with the nested validator yields an
\* error whose field is exactly "a[0].b": the index in brackets directly
\* after the parent field name, child field names joined with a dot.
C3_FieldPathComposes ==
    (Done /\ validator = NestedValidator /\ value = NestedValue)
        => \E i \in 1..Len(result.errors) : result.errors[i].field = Some("a[0].b")

\* C4: validate raises no exception, whatever the validator and the
\* value: every call returns a ValidationResult.
C4_ValidateNeverRaises ==
    (pc = "done" /\ validator.cls # "schema") => raised = "none"

SupportedTypes == {"string", "number", "integer", "boolean", "array", "object"}

Unsupported(section) ==
    \/ "type" \notin DOMAIN section
    \/ section.type \notin SupportedTypes

\* The properties whose type tag, or whose items' type tag, is missing or
\* not a supported one.
PassthroughProperties(schema) ==
    {schema.properties[i][1] : i \in
        {j \in 1..Len(schema.properties) :
            LET section == schema.properties[j][2]
            IN  \/ Unsupported(section)
                \/ /\ section.type = "array"
                   /\ Unsupported(GetOr(section, "items", <<>>))}}

\* C5: a schema with a property of a missing or unsupported type tag is
\* built into a validator without an exception, and no value of that
\* property gets an error.
C5_UnknownTypePassthrough ==
    (pc # "schema" /\ PassthroughProperties(validator.schema) # {})
        => /\ validator.cls = "JSONSchemaValidator"
           /\ (pc = "done" /\ raised = "none")
                 => \A i \in 1..Len(result.errors) :
                        \A name \in PassthroughProperties(validator.schema) :
                            result.errors[i].field # Some(Text(name))

\* What candidate k of a UnionValidator makes of the value.
Verdict(self, v, k) == validate(self.validators[k], v)
Accepts(self, v, k) ==
    Verdict(self, v, k).raised = "none" /\ Verdict(self, v, k).result.is_valid
Rejects(self, v, k) ==
    Verdict(self, v, k).raised = "none" /\ ~Verdict(self, v, k).result.is_valid

\* The messages of the errors of the candidates from k on, in order.
RECURSIVE CandidateMessages(_, _, _)
CandidateMessages(self, v, k) ==
    IF k > Len(self.validators) THEN <<>>
    ELSE Messages(Verdict(self, v, k).result.errors)
         \o CandidateMessages(self, v, k + 1)

\* C6: a UnionValidator consults its candidates in list order; the first
\* one to accept ends the call with a valid result and no later candidate
\* is consulted; when every candidate rejects, the result is invalid with
\* one aggregate error whose details list the messages of the errors of
\* all candidates, in candidate order.  (With no candidate at all the
\* result is valid.)
C6_FirstSuccessWins ==
    (Done /\ validator.cls = "UnionValidator")
        => LET n == Len(validator.validators)
           IN  /\ \A k \in 1..n :
                     (/\ Accepts(validator, value, k)
                      /\ \A j \in 1..(k - 1) : Rejects(validator, value, j))
                        => /\ raised = "none"
                           /\ result.is_valid
                           /\ result = Verdict(validator, value, k).result
                           /\ calls = [j \in 1..k |-> IntText(j - 1)]
               /\ (n >= 1 /\ \A k \in 1..n : Rejects(validator, value, k))
                     => /\ raised = "none"
                        /\ ~result.is_valid
                        /\ Len(result.errors) = 1
                        /\ result.errors[1].details =
                               << <<"errors", CandidateMessages(validator, value, 1)>> >>
                        /\ calls = [j \in 1..n |-> IntText(j - 1)]
               /\ n = 0 => result = ValidationResult(TRUE)

C6_Witness ==
    /\ Done
    /\ validator = UnionValidator(<<WholeNumber, TagValidator>>)
    /\ value = IntV(1)
    /\ result.is_valid
    /\ calls = <<"0">>

\* The uniqueness errors a ListValidator reports on its own list.
UniquenessErrors(r) ==
    Cardinality({i \in 1..Len(r.errors) :
        /\ r.errors[i].message = "List items must be unique"
        /\ IsNone(r.errors[i].field)})

HasEqualRenderings(items) ==
    \E i, j \in 1..Len(items) : i < j /\ Render(items[i]) = Render(items[j])

\* C7: with unique_items a ListValidator reports exactly one uniqueness
\* error for a list in which two items have the same string rendering,
\* however many such items there are, and none for a list whose renderings
\* are all distinct.
C7_OneUniquenessError ==
    (Done /\ validator.cls = "ListValidator" /\ value.t = "list")
        => /\ raised = "none"
           /\ UniquenessErrors(result) =
                  IF validator.unique_items /\ HasEqualRenderings(value.items)
                  THEN 1 ELSE 0

C7_Witness ==
    /\ Done
    /\ validator.cls = "ListValidator"
    /\ validator.unique_items
    /\ value = ListV(<<StrV(<<"1">>), IntV(1), StrV(<<"1">>)>>)
    /\ UniquenessErrors(result) = 1

\* The required fields that the dict lacks, and the message that names them.
AbsentRequired(self, v) ==
    SelectSeq(self.required_fields,
              LAMBDA f : \A i \in 1..Len(v.pairs) : v.pairs[i][1] # StrV(f))

MissingMessage(fields) ==
    "Missing required fields: " \o JoinComma([i \in 1..Len(fields) |-> Text(fields[i])])

\* Every message that names some of the required fields as missing.
MissingMessages(self) ==
    {MissingMessage(SelectSeq(self.required_fields, LAMBDA f : f \in chosen)) :
        chosen \in SUBSET {self.required_fields[i] : i \in 1..Len(self.required_fields)}}

\* C10: DictValidator.validate on a dict that lacks required fields returns
\* an invalid result with the missing-required-field error that names
\* every absent required field; no absent field is passed to its field
\* validator; a dict with all required fields gets no such error.
C10_MissingRequiredReported ==
    (Done /\ validator.cls = "DictValidator" /\ value.t = "dict")
        => LET absent == AbsentRequired(validator, value)
           IN  /\ absent # <<>>
                     => /\ raised = "none"
                        /\ ~result.is_valid
                        /\ HasMessage(result, MissingMessage(absent))
               /\ (absent = <<>> /\ raised = "none")
                     => \A m \in MissingMessages(validator) : ~HasMessage(result, m)
               /\ \A i \in 1..Len(calls) :
                     \A j \in 1..Len(absent) : calls[i] # Text(absent[j])

\* The keys of the input that the schema does not declare, and the message
\* that names them.
UnknownKeys(self, v) ==
    SelectSeq([i \in 1..Len(v.pairs) |-> v.pairs[i][1]],
              LAMBDA key : \A k \in 1..Len(self.schema) : StrV(self.schema[k][1]) # key)

UnknownMessage(keys) ==
    "Unknown fields: " \o JoinComma([i \in 1..Len(keys) |-> Render(keys[i])])

\* The positions of the schema whose field the input holds.
PresentFields(self, v) ==
    {k \in 1..Len(self.schema) :
        \E i \in 1..Len(v.pairs) : v.pairs[i][1] = StrV(self.schema[k][1])}

\* What the validator of schema entry k says about the input's value.
FieldVerdict(self, v, k) ==
    validate(self.schema[k][2],
             v.pairs[CHOOSE i \in 1..Len(v.pairs) :
                         v.pairs[i][1] = StrV(self.schema[k][1])][2])

\* The error with the field name put in front of its field path.
Prefixed(error, name) ==
    [error EXCEPT !.field =
        IF error.field = None THEN Some(name)
        ELSE Some(name \o "." \o Get(error.field))]

\* The number of errors that the validators of the schema entries 1..k
\* find in the fields the input holds.
RECURSIVE FieldErrorCount(_, _, _)
FieldErrorCount(self, v, k) ==
    IF k = 0 THEN 0
    ELSE FieldErrorCount(self, v, k - 1)
         + (IF k \in PresentFields(self, v)
            THEN Len(FieldVerdict(self, v, k).result.errors) ELSE 0)

\* C11: DictValidator.validate returns a result that holds an unknown-field
\* error naming the keys the schema lacks exactly when allow_unknown is
\* false and there are such keys; every field that the schema declares and
\* the input holds is validated, and each error of its validator is in the
\* result with the field name in front of its field path, with no other
\* error besides the missing-field one; the demonstration's invalid person
\* gets exactly three errors.
C11_UnknownAndFieldErrors ==
    (Done /\ validator.cls = "DictValidator" /\ value.t = "dict")
        => LET unknown == UnknownKeys(validator, value)
               present == PresentFields(validator, value)
               Errors(k) == FieldVerdict(validator, value, k).result.errors
           IN  /\ raised = "none"
               /\ HasMessage(result, UnknownMessage(unknown))
                     <=> (~validator.allow_unknown /\ unknown # <<>>)
               /\ \A k \in present :
                     /\ \E i \in 1..Len(calls) :
                            calls[i] = Text(validator.schema[k][1])
                     /\ \A j \in 1..Len(Errors(k)) :
                            \E i \in 1..Len(result.errors) :
                                result.errors[i] =
                                    Prefixed(Errors(k)[j], Text(validator.schema[k][1]))
               /\ Len(result.errors) =
                     (IF AbsentRequired(validator, value) # <<>> THEN 1 ELSE 0)
                     + (IF ~validator.allow_unknown /\ unknown # <<>> THEN 1 ELSE 0)
                     + FieldErrorCount(validator, value, Len(validator.schema))
               /\ (validator = PersonValidator /\ value = InvalidPerson)
                     => Len(result.errors) = 3

ItemVerdict(self, v, k) == validate(Get(self.item_validator), v.items[k])

\* C13: a ValidationError keeps the message, the field and the details its
\* constructor gave it: each error that an item validator or a field
\* validator returned is in the result of the list or dict validator that
\* called it exactly as it was constructed.
C13_ErrorsImmutable ==
    /\ (Done /\ raised = "none" /\ validator.cls = "ListValidator"
           /\ value.t = "list" /\ validator.item_validator # None)
          => \A k \in 1..Len(value.items) :
                 LET constructed == ItemVerdict(validator, value, k).result.errors
                 IN  \A j \in 1..Len(constructed) :
                         \E i \in 1..Len(result.errors) :
                             result.errors[i] = constructed[j]
    /\ (Done /\ raised = "none" /\ validator.cls = "DictValidator"
           /\ value.t = "dict")
          => \A k \in PresentFields(validator, value) :
                 LET constructed == FieldVerdict(validator, value, k).result.errors
                 IN  \A j \in 1..Len(constructed) :
                         \E i \in 1..Len(result.errors) :
                             result.errors[i] = constructed[j]

\* The errors of the container checks, in the order the claim gives:
\* minimum length, maximum length, uniqueness.
ContainerErrors(self, v) ==
    (IF Len(v.items) < self.min_length
     THEN <<ValidationError("List must contain at least "
                            \o IntText(self.min_length) \o " items")>>
     ELSE <<>>)
    \o (IF self.max_length # None /\ Len(v.items) > Get(self.max_length)
        THEN <<ValidationError("List must not contain more than "
                               \o IntText(Get(self.max_length)) \o " items")>>
        ELSE <<>>)
    \o (IF self.unique_items /\ HasEqualRenderings(v.items)
        THEN <<ValidationError("List items must be unique")>>
        ELSE <<>>)

\* The errors of the items 1..k, each with its index in brackets in front.
RECURSIVE ElementErrors(_, _, _)
ElementErrors(self, v, k) ==
    IF k = 0 THEN <<>>
    ELSE ElementErrors(self, v, k - 1)
         \o [j \in 1..Len(ItemVerdict(self, v, k).result.errors) |->
                Prefixed(ItemVerdict(self, v, k).result.errors[j],
                         "[" \o IntText(k - 1) \o "]")]

\* C14: ListValidator.validate checks the container type, then the length
\* bounds, then uniqueness, then each item in ascending index: the errors
\* of the result are in that order, each item error has its index in
\* brackets at the front of its field, and a value that is not a list gets
\* the type error alone, no item being visited.
C14_ListCheckOrder ==
    (Done /\ validator.cls = "ListValidator")
        => /\ raised = "none"
           /\ value.t # "list"
                 => /\ result.errors =
                          <<ValidationError("Expected list but got " \o value.t)>>
                    /\ calls = <<>>
           /\ (value.t = "list" /\ validator.item_validator = None)
                 => /\ result.errors = ContainerErrors(validator, value)
                    /\ calls = <<>>
           /\ (value.t = "list" /\ validator.item_validator # None)
                 => /\ result.errors =
                          ContainerErrors(validator, value)
                          \o ElementErrors(validator, value, Len(value.items))
                    /\ calls = [k \in 1..Len(value.items) |->
                                   "[" \o IntText(k - 1) \o "]"]

\* A list that is too long, has equal items and two invalid items: the
\* length error, the uniqueness error, then the errors of items 0 and 1.
C14_Witness ==
    /\ Done
    /\ validator = ListValidator(Some(TagValidator), 0, Some(2), TRUE)
    /\ value = ListV(<<StrV(<<>>), StrV(<<>>), StrV(<<"a">>)>>)
    /\ Len(result.errors) = 4
    /\ result.errors[3].field = Some("[0]")
    /\ result.errors[4].field = Some("[1]")

\* C15: EmailValidator.validate on a string that matches the email pattern
\* and holds two consecutive dots returns an invalid result with the
\* consecutive-dots error; on a string that does not match the pattern it
\* reports the pattern error and not the consecutive-dots error.
C15_ConsecutiveDots ==
    (Done /\ validator.cls = "EmailValidator" /\ value.t = "str")
        => LET dotted == \E i \in 1..(Len(value.s) - 1) :
                             value.s[i] = "." /\ value.s[i + 1] = "."
               dots_error == HasMessage(result, "Email cannot contain consecutive dots")
               pattern_error ==
                   HasMessage(result, "String does not match required pattern "
                                      \o EmailPattern.pattern)
           IN  /\ raised = "none"
               /\ (MatchEmail(value.s) /\ dotted)
                     => ~result.is_valid /\ dots_error /\ ~pattern_error
               /\ ~MatchEmail(value.s) => pattern_error /\ ~dots_error

\* "a..b@example.com" matches the pattern and gets the consecutive-dots
\* error alone.
C15_Witness ==
    /\ Done
    /\ validator = EmailValidator(FALSE)
    /\ value = StrV(DottedEmail)
    /\ MatchEmail(value.s)
    /\ Messages(result.errors) = <<"Email cannot contain consecutive dots">>

\* The messages of all errors of all fields of an instance, in the order
\* the fields 1..k are validated.
RECURSIVE FieldMessages(_, _, _)
FieldMessages(cls, inst, k) ==
    IF k = 0 THEN <<>>
    ELSE FieldMessages(cls, inst, k - 1)
         \o (IF FieldValidator(cls, inst[k][1]) = None THEN <<>>
             ELSE Messages(validate(Get(FieldValidator(cls, inst[k][1])),
                                    inst[k][2]).result.errors))

\* C16: from_dict returns an instance only when the instance's validate()
\* result is valid; when that result is invalid it returns no instance and
\* raises one ValidationError whose details hold the messages of all
\* errors of all fields, in the order the fields were validated.
C16_FromDictStrict ==
    pc = "from_dict_done"
        => /\ instance # None
                 => /\ raised = "none"
                    /\ exception = None
                    /\ ValidatedModel_validate(validator, Get(instance)).result.is_valid
           /\ (raised = "none") => instance # None
           /\ (calls # <<>> /\ ~result.is_valid)
                 => /\ instance = None
                    /\ raised = "ValidationError"
                    /\ exception # None
                    /\ \E now \in Nows :
                          LET inst == Get(User_init(value, now).instance)
                          IN  Get(exception).details =
                                  << <<"errors",
                                       FieldMessages(validator, inst, Len(inst))>> >>

\* from_dict on the demonstration's invalid user raised one error that
\* carries the eight messages of its five invalid fields.
C16_Witness ==
    /\ pc = "from_dict_done"
    /\ value = InvalidUser
    /\ raised = "ValidationError"
    /\ instance = None
    /\ Len(Get(exception).details[1][2]) = 8

\* The value of a field of an instance.
FieldOf(inst, name) == inst[CHOOSE k \in 1..Len(inst) : inst[k][1] = name][2]

\* The number of errors of the result whose field is the given name.
ErrorsOn(r, name) ==
    Cardinality({i \in 1..Len(r.errors) : r.errors[i].field = Some(Text(name))})

\* C17: User.validate() on a user whose username is too short, whose email
\* is no email, whose password is too weak, whose age is below 13 and
\* whose status is not an allowed value reports exactly five errors, one
\* for each of these fields; a user whose fields are all valid gets a
\* valid result with no errors.
C17_OneErrorPerInvalidField ==
    (Done /\ validator.cls = "User")
        => LET inst == Get(instance)
               Valid(name) ==
                   validate(Get(FieldValidator(validator, name)),
                            FieldOf(inst, name)).result.is_valid
               Five == {FieldUsername, FieldEmail, FieldPassword, FieldAge,
                        FieldStatus}
           IN  /\ (/\ Len(FieldOf(inst, FieldUsername).s) < 3
                   /\ ~MatchEmail(FieldOf(inst, FieldEmail).s)
                   /\ ~Valid(FieldPassword)
                   /\ FieldOf(inst, FieldAge).t = "int"
                   /\ FieldOf(inst, FieldAge).n < 13
                   /\ \A k \in 1..Len(UserStatus) :
                          UserStatus[k] # FieldOf(inst, FieldStatus).s)
                     => /\ Len(result.errors) = 5
                        /\ \A name \in Five : ErrorsOn(result, name) = 1
               /\ (\A k \in 1..Len(inst) : Valid(inst[k][1]))
                     => result.is_valid /\ result.errors = <<>>

\* The keys of the form, and of its profile, are all declared in the schema.
OnlyDeclaredKeys(form) ==
    /\ \A i \in 1..Len(form.pairs) :
           \E k \in 1..Len(RegistrationSchema.properties) :
               form.pairs[i][1] = StrV(RegistrationSchema.properties[k][1])
    /\ (HasKey(form.pairs, FieldProfile)
           /\ Lookup(form.pairs, FieldProfile).t = "dict")
          => \A i \in 1..Len(Lookup(form.pairs, FieldProfile).pairs) :
                 Lookup(form.pairs, FieldProfile).pairs[i][1]
                     \in {StrV(FieldFirstName), StrV(FieldLastName), StrV(FieldBio)}

\* The conditions the claim lists, all but the email format.
FormMeetsRules(form) ==
    LET Has(f) == HasKey(form.pairs, f)
        Val(f) == Lookup(form.pairs, f)
        IsStr(f) == Val(f).t = "str"
    IN  /\ \A f \in {FieldUsername, FieldEmail, FieldPassword,
                      FieldConfirmPassword, FieldTermsAccepted} : Has(f)
        /\ IsStr(FieldUsername)
        /\ Len(Val(FieldUsername).s) \in 3..50
        /\ MatchUsername(Val(FieldUsername).s)
        /\ IsStr(FieldEmail)
        /\ IsStr(FieldPassword)
        /\ Len(Val(FieldPassword).s) >= 8
        /\ IsStr(FieldConfirmPassword)
        /\ Has(FieldAge) => Val(FieldAge).t = "int" /\ Val(FieldAge).n >= 13
        /\ Val(FieldTermsAccepted).t = "bool"
        /\ Has(FieldProfile)
              => /\ Val(FieldProfile).t = "dict"
                 /\ \A i \in 1..Len(Val(FieldProfile).pairs) :
                        /\ Val(FieldProfile).pairs[i][2].t = "str"
                        /\ Val(FieldProfile).pairs[i][1] = StrV(FieldBio)
                              => Len(Val(FieldProfile).pairs[i][2].s) <= 500
        /\ Val(FieldPassword) = Val(FieldConfirmPassword)
        /\ \E i \in 1..Len(Val(FieldPassword).s) : Val(FieldPassword).s[i] \in Upper
        /\ \E i \in 1..Len(Val(FieldPassword).s) : Val(FieldPassword).s[i] \in Lower
        /\ \E i \in 1..Len(Val(FieldPassword).s) : Val(FieldPassword).s[i] \in Digits
        /\ \E i \in 1..Len(Val(FieldPassword).s) :
               Val(FieldPassword).s[i] \notin Upper \cup Lower \cup Digits
        /\ Val(FieldTermsAccepted).b

\* The email of the form is in email format.
FormEmailOK(form) ==
    /\ HasKey(form.pairs, FieldEmail)
    /\ Lookup(form.pairs, FieldEmail).t = "str"
    /\ MatchEmail(Lookup(form.pairs, FieldEmail).s)

\* C18: for a form with declared fields only, validate_registration_form
\* returns a valid result exactly when the required fields are present,
\* every declared field meets its schema constraint (the email being in
\* email format), the password equals confirm_password and meets the
\* strength rules, and terms_accepted is true.
C18_FormValidExactly ==
    (Done /\ validator.cls = "validate_registration_form"
        /\ value.t = "dict" /\ OnlyDeclaredKeys(value))
        => /\ raised = "none"
           /\ result.is_valid <=> (FormMeetsRules(value) /\ FormEmailOK(value))

\* The last create_order call, and the stock a database holds of a product.
LastOrder == Get(order_call)

Ordered == pc = "orders" /\ ~IsNone(order_call)

StockIn(database, product_id) == Get(get_product(database, product_id)).stock

\* The call asked for one item of a product that exists, and the payment
\* service, if asked, reported success.
SingleItemOrder ==
    /\ Len(LastOrder.items) = 1
    /\ LastOrder.items[1].product_id \in ProductIds
    /\ Truthy(LastOrder.payment_details) => LastOrder.reply = "success"

\* The rows the call stored: the last order row and the last rows of
\* order_items, one per item, in the order of the items.
StoredOrder == db.orders[Len(db.orders)]

StoredItems ==
    SubSeq(db.order_items, Len(LastOrder.before.order_items) + 1,
           Len(db.order_items))

ItemStored(row, item) ==
    /\ row.order_id = Get(LastOrder.order_id)
    /\ row.product_id = item.product_id
    /\ row.quantity = item.quantity

C20_RaisingLeavesState ==
    (Ordered /\ LastOrder.raised # "none") => db = LastOrder.before

\* After an order went through, a call whose first item could be served
\* fails on its second item.
C20_Witness ==
    /\ Ordered
    /\ LastOrder.raised = "ValueError"
    /\ LastOrder.before.orders # <<>>
    /\ Len(LastOrder.items) = 2
    /\ LastOrder.items[2].product_id = 2
    /\ StockIn(LastOrder.before, 1) >= LastOrder.items[1].quantity
    /\ StockIn(LastOrder.before, 2) < LastOrder.items[2].quantity
    /\ db = LastOrder.before

\* Every item names a product that exists and has the stock asked for.
ItemsInStock ==
    \A k \in 1..Len(LastOrder.items) :
        /\ LastOrder.items[k].product_id \in ProductIds
        /\ StockIn(LastOrder.before, LastOrder.items[k].product_id)
               >= LastOrder.items[k].quantity

\* The sum of price times quantity over the first k items.
RECURSIVE OrderTotal(_)
OrderTotal(k) ==
    IF k = 0 THEN 0
    ELSE OrderTotal(k - 1)
         + Get(get_product(LastOrder.before,
                           LastOrder.items[k].product_id)).price
           * LastOrder.items[k].quantity

\* Payment details count as supplied when the mapping is not empty
\* ("if payment_details:").
PaymentSupplied == Truthy(LastOrder.payment_details)

C27_StockNeverNegative ==
    pc = "orders" =>
        \A i \in 1..Len(db.products) : db.products[i].stock >= 0

\* The call that was made, and what became of it.
Calculation == Get(response)

\* C22: process_calculation reports every failure as a value: for every
\* operation name and every pair of numeric operands it returns a mapping
\* whose status is 'error' with a message (division by zero, unknown
\* operation, any failing power computation) or 'success' with the result,
\* and never lets an exception escape to the caller.
C22_FailuresAreValues ==
    (pc = "calculator" /\ ~IsNone(response)) =>
        /\ Calculation.raised = "none"
        /\ ~IsNone(Calculation.returned)
        /\ LET returned == Get(Calculation.returned)
           IN  \/ returned.status = "success"
               \/ returned.status = "error" /\ returned.message # ""

\* What the validator of the k-th item of the decorator makes of the
\* argument bound to its parameter.
ParamChecked(k) == HasKey(value.pairs, validator.validators[k][1])

ParamVerdict(k) ==
    validate(validator.validators[k][2],
             Lookup(value.pairs, validator.validators[k][1]))

InvalidParam(k) ==
    /\ ParamChecked(k)
    /\ ParamVerdict(k).raised = "none"
    /\ ~ParamVerdict(k).result.is_valid

\* The names of the validated parameters, and the messages of the errors
\* of the invalid ones, over the first k items of the decorator.
RECURSIVE CheckedNames(_)
CheckedNames(k) ==
    IF k = 0 THEN <<>>
    ELSE CheckedNames(k - 1)
         \o (IF ParamChecked(k) THEN <<Text(validator.validators[k][1])>>
             ELSE <<>>)

RECURSIVE InvalidMessages(_)
InvalidMessages(k) ==
    IF k = 0 THEN <<>>
    ELSE InvalidMessages(k - 1)
         \o (IF InvalidParam(k) THEN Messages(ParamVerdict(k).result.errors)
             ELSE <<>>)

WrappedCalled == \E i \in 1..Len(calls) : calls[i] = FuncCalled

\* C23: a function wrapped by validate_arguments is invoked only after
\* every parameter that has a validator was validated and all of them
\* passed; if any validated parameter is invalid the wrapper raises one
\* ValidationError whose details carry the messages of the errors of all
\* invalid parameters, not only the first, and the wrapped function is not
\* called.
C23_ValidateThenCall ==
    pc = "wrapper_done" =>
        LET n == Len(validator.validators)
        IN  /\ WrappedCalled =>
                   /\ calls = CheckedNames(n) \o <<FuncCalled>>
                   /\ \A k \in 1..n : ~InvalidParam(k)
            /\ (\E k \in 1..n : InvalidParam(k)) =>
                   /\ raised = "ValidationError"
                   /\ ~IsNone(exception)
                   /\ Get(exception).details =
                          << <<"errors", InvalidMessages(n)>> >>
                   /\ ~WrappedCalled


\* The keys of the dict v that the properties do not declare.
Undeclared(properties, v) ==
    SelectSeq([i \in 1..Len(v.pairs) |-> v.pairs[i][1]],
              LAMBDA key : \A k \in 1..Len(properties) :
                               StrV(properties[k][1]) # key)

\* The result r carries the unknown-field error for the keys, under field.
UnknownReported(r, keys, field) ==
    \E i \in 1..Len(r.errors) :
        /\ r.errors[i].message = UnknownMessage(keys)
        /\ r.errors[i].field = field

\* The undeclared keys of v are reported exactly when the section says
\* "additionalProperties": false.
FollowsSetting(section, v, r, field) ==
    LET keys == Undeclared(GetOr(section, "properties", <<>>), v)
    IN  keys # <<>> =>
            (UnknownReported(r, keys, field)
                 <=> ~GetOr(section, "additionalProperties", TRUE))

\* The properties of the schema that are objects and whose field the
\* input holds as a dict.
NestedObjects(schema, v) ==
    {k \in 1..Len(GetOr(schema, "properties", <<>>)) :
        /\ GetOpt(schema.properties[k][2], "type") = Some("object")
        /\ HasKey(v.pairs, schema.properties[k][1])
        /\ Lookup(v.pairs, schema.properties[k][1]).t = "dict"}

\* C24: JSONSchemaValidator follows the schema's additionalProperties
\* setting: absent or true, input keys that the properties do not declare
\* are accepted without error; false, such keys produce an unknown-field
\* error; a nested object schema applies the rule with its own setting.
C24_AdditionalProperties ==
    (/\ pc = "done"
     /\ adds = 0
     /\ raised = "none"
     /\ validator.cls = "JSONSchemaValidator"
     /\ value.t = "dict")
        => /\ FollowsSetting(validator.schema, value, result, None)
           /\ \A k \in NestedObjects(validator.schema, value) :
                  FollowsSetting(validator.schema.properties[k][2],
                      Lookup(value.pairs, validator.schema.properties[k][1]),
                      result, Some(Text(validator.schema.properties[k][1])))


\* What the schema stage (lines 807-808) makes of the form.
SchemaStage ==
    validate(JSONSchemaValidator(RegistrationSchema).validator, value).result

\* The messages of the custom rules of lines 811-829.
StrengthMessages ==
    {"Password must contain at least one uppercase letter",
     "Password must contain at least one lowercase letter",
     "Password must contain at least one digit",
     "Password must contain at least one special character"}

RuleMessages ==
    StrengthMessages
    \cup {"Passwords do not match", "You must accept the terms and conditions"}

FormChecked ==
    pc = "done" /\ raised = "none" /\ validator.cls = "validate_registration_form"

\* C25: validate_registration_form runs the cross-field and semantic
\* checks (password confirmation, password strength, terms acceptance)
\* only when the schema stage produced no error: a form that fails the
\* schema stage carries none of their errors, and every password-strength
\* error that is reported has the field "password".
C25_RulesAfterSchema ==
    FormChecked =>
        /\ ~SchemaStage.is_valid =>
               /\ result = SchemaStage
               /\ \A i \in 1..Len(result.errors) :
                      result.errors[i].message \notin RuleMessages
        /\ \A i \in 1..Len(result.errors) :
               result.errors[i].message \in StrengthMessages
                   => result.errors[i].field = Some("password")

\* A form that fails the schema stage, whose passwords differ and whose
\* terms are not accepted, was validated.
C25_Witness ==
    /\ FormChecked
    /\ value.t = "dict"
    /\ ~SchemaStage.is_valid
    /\ FormGet(value, FieldPassword, NoneV)
           # FormGet(value, FieldConfirmPassword, NoneV)
    /\ ~Truthy(FormGet(value, FieldTermsAccepted, BoolV(FALSE)))


\* C26: EmailValidator(allow_empty=True), which is built with
\* min_length = 0, accepts the empty string as valid, while EmailValidator()
\* with the default allow_empty=False rejects it.
C26_AllowEmpty ==
    (Done /\ validator.cls = "EmailValidator" /\ value = StrV(<<>>))
        => /\ raised = "none"
           /\ result.is_valid <=> validator = EmailValidator(TRUE)

====
